---- MODULE Spec2Model ----
(***************************************************************************)
(* A model of the retrieval and ranking engine of cps842_project:          *)
(*   - the link-graph rank engine  (pagerank.py, task2/web_pagerank.py)    *)
(*   - the index build             (task2/invert.py, task2/web_indexer.py) *)
(*   - the query engine            (task1/search.py, task2/web_search.py)  *)
(*   - the readers, the crawler    (task2/webcrawler.py) and the average   *)
(*     precision of eval.py                                                *)
(* Rank scores are exact rationals <<numerator, denominator>>.             *)
(***************************************************************************)
EXTENDS Integers, Sequences, FiniteSets, TLC

\* ------------------------------------------------------------------ bounds
MaxNodes == 3
MaxEdges == 3
MaxIter == 3
MaxDocs == 3

VARIABLES
    pr_impl,     \* "cacm" = pagerank.py, "web" = task2/web_pagerank.py
    doc_ids,     \* power_iteration's doc_ids: a sequence of ids
    adjacency,   \* power_iteration's adjacency: id -> set of ids
    damping,     \* rational in (0,1)
    max_iter,
    tol,         \* rational >= 0
    rank,        \* the current rank vector: id -> rational
    iteration,   \* iterations performed so far
    delta,       \* the L1 delta of the last iteration (Inf before the first)
    deltas,      \* history: deltas[i] is the L1 delta of iteration i
    pr_pc,       \* "parse" | "parsed" | "start" | "loop" | "done"
    records,     \* the input of the graph construction: <<[id, links]>>
    returned,    \* what power_iteration returned, as a tuple
    engine,      \* "cacm" = invert.py + task1/search.py,
                 \* "web" = web_indexer.py + web_search.py
    corpus,      \* the documents, in input order: [id, tf: term -> count]
    ix_pc,       \* "start" | "indexed" | "weighted" | "emitted"
    index,       \* term -> <<[doc_id, freq], ...>> in insertion order
    term_stats,  \* term -> <<[doc_id, freq, tf, df, idf, weight], ...>>
    norm_sums,   \* doc id -> sum of squared weights
    dictionary,  \* term -> [df, idf]
    postings,    \* term -> the ordered postings written out
    doc_norms,   \* doc id -> L2 norm (web_indexer.py: only norms > 0)
    query,       \* the normalized query tokens
    top_k,
    w_cos,       \* fusion weights (w1, w2 in web_search.py)
    w_pr,
    pagerank_file,  \* [supplied, scores]: the rank vector behind pagerank_path
    normalize_pr,
    query_vector,   \* [terms: <<[term, f, tf, idf, w, postings]>>, norm_sums, norm]
    sim,         \* cosine score per candidate, in insertion order: <<[doc_id, score]>>
    result,      \* the ranked list returned: <<[doc_id, score]>>
    s_pc,        \* "cli" | "start" | "evaluated" | "compared" | "done" |
                 \* "raised" | "rejected"
    pr_cache,    \* task1/search.py _PAGERANK_CACHE: <<path, normalize>> -> scores
    nz_impl,     \* the min-max normalization applied
    raw_scores,  \* its argument: doc id -> score
    normalized,  \* its result
    nz_pc,       \* "start" | "done"
    ld_impl,     \* the reader: "read_corpus" | "load_corpus" | "parse_cacm" |
                 \* "parse_citations" | "load_pagerank_scores"
    ld_lines,    \* the records of the input file, in order: <<[kind, id]>>
    ld_pos,      \* the record the loop reads next
    ld_out,      \* the ids of the records loaded so far, in order
    ld_pc,       \* "reading" | "done" | "raised"
    ev_results,  \* average_precision's results: <<[doc_id, numeric]>> by rank
    ev_relevant, \* its relevant_docs: a sequence of ids
    ev_pos,      \* the rank the loop looks at next
    ev_hits,
    ev_sum,      \* precision_sum, a rational
    ev_ap,       \* the value returned
    ev_pc,       \* "start" | "loop" | "done"
    cr_seeds,    \* config.seeds, in order
    cr_max_pages,
    cr_max_depth,
    cr_web,      \* what a request of a URL gives: url -> [outcome, links]
    frontier,    \* deque of [url, depth]
    visited,
    discovered,
    url_to_id,
    doc_id_counter,
    written,     \* the records written to pages.jsonl, in order
    fetched,     \* the URLs requested so far, in order
    cr_pc        \* "crawling" | "done"

rankVars == <<pr_impl, doc_ids, adjacency, damping, max_iter, tol, rank,
              iteration, delta, deltas, pr_pc, records, returned>>

indexVars == <<engine, corpus, ix_pc, index, term_stats, norm_sums,
               dictionary, postings, doc_norms>>

searchVars == <<query, top_k, w_cos, w_pr, pagerank_file, normalize_pr,
                query_vector, sim, result, s_pc, pr_cache>>

normVars == <<nz_impl, raw_scores, normalized, nz_pc>>

loadVars == <<ld_impl, ld_lines, ld_pos, ld_out, ld_pc>>

evalVars == <<ev_results, ev_relevant, ev_pos, ev_hits, ev_sum, ev_ap, ev_pc>>

crawlVars == <<cr_seeds, cr_max_pages, cr_max_depth, cr_web, frontier, visited,
               discovered, url_to_id, doc_id_counter, written, fetched, cr_pc>>

restVars == <<loadVars, evalVars, crawlVars>>

vars == <<rankVars, indexVars, searchVars, normVars, restVars>>

\* ------------------------------------------------------- exact rationals
RECURSIVE GCD(_, _)
GCD(a, b) == IF b = 0 THEN a ELSE GCD(b, a % b)

Abs(x) == IF x < 0 THEN -x ELSE x

Rat(n, d) ==
    LET g == GCD(Abs(n), d) IN <<n \div g, d \div g>>

Zero == <<0, 1>>
One == <<1, 1>>
\* float("inf"): greater than every rational
Inf == <<1, 0>>

LCM(a, b) == (a \div GCD(a, b)) * b

RAdd(x, y) ==
    LET l == LCM(x[2], y[2])
    IN  Rat(x[1] * (l \div x[2]) + y[1] * (l \div y[2]), l)

RNeg(x) == <<-x[1], x[2]>>

RSub(x, y) == RAdd(x, RNeg(y))

RAbs(x) == <<Abs(x[1]), x[2]>>

RMul(x, y) ==
    LET g1 == GCD(Abs(x[1]), y[2])
        g2 == GCD(Abs(y[1]), x[2])
    IN  <<(x[1] \div g1) * (y[1] \div g2), (x[2] \div g2) * (y[2] \div g1)>>

\* x / k for an integer k > 0
RDivInt(x, k) == RMul(x, <<1, k>>)

RLess(x, y) ==
    IF x = Inf THEN FALSE
    ELSE IF y = Inf THEN TRUE
    ELSE LET l == LCM(x[2], y[2])
         IN  x[1] * (l \div x[2]) < y[1] * (l \div y[2])

RGreater(x, y) == RLess(y, x)

Range(s) == {s[i] : i \in 1..Len(s)}

RECURSIVE RSum(_, _)
\* sum(f[x] for x in S)
RSum(f, S) ==
    IF S = {} THEN Zero
    ELSE LET x == CHOOSE y \in S : TRUE
         IN  RAdd(f[x], RSum(f, S \ {x}))

\* --------------------------------------------------------- rank engine
\* dict.get(key, default)
Get(f, k, default) == IF k \in DOMAIN f THEN f[k] ELSE default

\* adjacency.get(doc): falsy when missing or empty
Targets(adj, doc) == Get(adj, doc, {})

\* sum(rank[doc] for doc in doc_ids if not adjacency.get(doc))
DanglingMass(ids, adj, r) ==
    RSum(r, {doc \in Range(ids) : Targets(adj, doc) = {}})

\* damping * dangling_mass / n
DanglingShare(ids, adj, d, r) ==
    RDivInt(RMul(d, DanglingMass(ids, adj, r)), Len(ids))

\* The jump term without the division by n.
MutRandomJump(ids, d) == RSub(One, d)

\* (1.0 - damping) / n
RandomJump(ids, d) == RDivInt(RSub(One, d), Len(ids))

\* The value a target outside doc_ids starts from when an edge first reaches it:
\* pagerank.py creates the entry with the jump and dangling terms,
\* web_pagerank.py uses new_rank.get(target, 0.0).
FreshEntry(impl, ids, adj, d, r) ==
    IF impl = "cacm"
    THEN RAdd(RandomJump(ids, d), DanglingShare(ids, adj, d, r))
    ELSE Zero

RECURSIVE PushTargets(_, _, _, _)
\* for target in targets: new_rank[target] += share
PushTargets(nr, targets, share, fresh) ==
    IF targets = {} THEN nr
    ELSE LET t == CHOOSE x \in targets : TRUE
             nr1 == IF t \in DOMAIN nr
                    THEN [nr EXCEPT ![t] = RAdd(@, share)]
                    ELSE (t :> RAdd(fresh, share)) @@ nr
         IN  PushTargets(nr1, targets \ {t}, share, fresh)

RECURSIVE PushShares(_, _, _, _, _, _, _)
\* for doc in doc_ids: push damping * rank[doc] / len(targets) along each edge
PushShares(nr, i, ids, adj, d, r, fresh) ==
    IF i > Len(ids) THEN nr
    ELSE LET doc == ids[i]
             targets == Targets(adj, doc)
         IN  IF targets = {}
             THEN PushShares(nr, i + 1, ids, adj, d, r, fresh)
             ELSE PushShares(
                      PushTargets(nr, targets,
                                  RDivInt(RMul(d, r[doc]), Cardinality(targets)),
                                  fresh),
                      i + 1, ids, adj, d, r, fresh)

MutAddDangling(nr, ids, share) == nr

\* for doc in doc_ids: new_rank[doc] += dangling_share
AddDangling(nr, ids, share) ==
    [x \in DOMAIN nr |-> IF x \in Range(ids) THEN RAdd(nr[x], share) ELSE nr[x]]

\* One pass of the loop body: the new rank vector.
NewRank(impl, ids, adj, d, r) ==
    LET base == [doc \in Range(ids) |-> RandomJump(ids, d)]
        pushed == PushShares(base, 1, ids, adj, d, r,
                             FreshEntry(impl, ids, adj, d, r))
    IN  AddDangling(pushed, ids, DanglingShare(ids, adj, d, r))

\* sum(abs(new_rank.get(doc, 0.0) - rank.get(doc, 0.0)) for doc in doc_ids)
L1Delta(ids, nr, r) ==
    RSum([doc \in Range(ids) |-> RAbs(RSub(Get(nr, doc, Zero), Get(r, doc, Zero)))],
         Range(ids))

\* The loop test. pagerank.py: while iteration < max_iter and delta > tol.
\* web_pagerank.py: for _ in range(max_iter), left by break once delta < tol.
Continues(impl, it, maxit, dl, tl) ==
    IF impl = "cacm"
    THEN it < maxit /\ RGreater(dl, tl)
    ELSE it < maxit /\ ~(it > 0 /\ RLess(dl, tl))

RECURSIVE RunLoop(_, _, _, _, _, _, _, _, _)
\* The loop of power_iteration from the rank vector r after it iterations.
RunLoop(impl, ids, adj, d, maxit, tl, r, it, dl) ==
    IF Continues(impl, it, maxit, dl, tl)
    THEN LET nr == NewRank(impl, ids, adj, d, r)
         IN  RunLoop(impl, ids, adj, d, maxit, tl, nr, it + 1, L1Delta(ids, nr, r))
    ELSE [rank |-> r, iterations |-> it]

\* power_iteration as a function of its arguments: the rank vector returned
\* and the number of passes of the loop.
PowerIteration(impl, ids, adj, d, maxit, tl) ==
    IF Len(ids) = 0 THEN [rank |-> <<>>, iterations |-> 0]
    ELSE RunLoop(impl, ids, adj, d, maxit, tl,
                 [doc \in Range(ids) |-> <<1, Len(ids)>>], 0, Inf)

\* ---- inputs
Dampings == {<<1, 2>>, <<3, 4>>}
Tols == {Zero, <<1, 4>>, <<1, 16>>}

IdSeq(n) == [i \in 1..n |-> i]

Graphs(n) ==
    {[doc \in 1..n |-> {e[2] : e \in {x \in E : x[1] = doc}}] :
        E \in {X \in SUBSET ((1..n) \X (1..n)) : Cardinality(X) <= MaxEdges}}

\* pagerank.py: `return rank, iteration, delta` (and `return {}, 0, 0.0`);
\* web_pagerank.py: `return rank` (and `return {}`).
ReturnValue(impl, r, it, dl) ==
    IF impl = "cacm" THEN <<r, it, dl>> ELSE <<r>>

RankInit ==
    /\ pr_impl \in {"cacm", "web"}
    /\ \E n \in 0..MaxNodes :
          /\ doc_ids = IdSeq(n)
          /\ adjacency \in Graphs(n)
    /\ damping \in Dampings
    /\ max_iter \in 0..MaxIter
    /\ tol \in Tols
    /\ rank = <<>>
    /\ iteration = 0
    /\ delta = Inf
    /\ deltas = <<>>
    /\ pr_pc = "start"
    /\ records = <<>>
    /\ returned = <<>>

\* n == 0 returns at once; otherwise start from the uniform distribution.
Initialize ==
    /\ pr_pc = "start"
    /\ IF Len(doc_ids) = 0
       THEN /\ pr_pc' = "done"
            /\ rank' = <<>>
            /\ delta' = IF pr_impl = "cacm" THEN Zero ELSE delta
            /\ returned' = ReturnValue(pr_impl, <<>>, 0, Zero)
       ELSE /\ pr_pc' = "loop"
            /\ rank' = [doc \in Range(doc_ids) |-> <<1, Len(doc_ids)>>]
            /\ delta' = delta
            /\ returned' = returned
    /\ UNCHANGED <<pr_impl, doc_ids, adjacency, damping, max_iter, tol,
                   iteration, deltas, records, indexVars, searchVars, normVars, restVars>>

\* One iteration of the loop body.
Iterate ==
    /\ pr_pc = "loop"
    /\ Continues(pr_impl, iteration, max_iter, delta, tol)
    /\ LET nr == NewRank(pr_impl, doc_ids, adjacency, damping, rank)
           dl == L1Delta(doc_ids, nr, rank)
       IN  /\ rank' = nr
           /\ delta' = dl
           /\ deltas' = Append(deltas, dl)
    /\ iteration' = iteration + 1
    /\ UNCHANGED <<pr_impl, doc_ids, adjacency, damping, max_iter, tol, pr_pc,
                   records, returned, indexVars, searchVars, normVars, restVars>>

\* The loop ends and power_iteration returns.
Return ==
    /\ pr_pc = "loop"
    /\ ~Continues(pr_impl, iteration, max_iter, delta, tol)
    /\ pr_pc' = "done"
    /\ returned' = ReturnValue(pr_impl, rank, iteration, delta)
    /\ UNCHANGED <<pr_impl, doc_ids, adjacency, damping, max_iter, tol, rank,
                   iteration, delta, deltas, records, indexVars, searchVars,
                   normVars, restVars>>

\* ------------------------------------------------- fixed-point numbers
\* Weights, norms and scores are floats in the code; here they are decimals
\* with three places, each operation rounding to the nearest value.
Scale == 1000

\* round(a * b)
FMul(a, b) == (a * b + Scale \div 2) \div Scale

\* round(a / b), b > 0
FDiv(a, b) == (a * Scale + b \div 2) \div b

RECURSIVE ISqrt(_, _, _)
\* the largest r in lo..hi with r * r <= x
ISqrt(x, lo, hi) ==
    IF lo >= hi THEN lo
    ELSE LET mid == (lo + hi + 1) \div 2
         IN  IF mid * mid <= x THEN ISqrt(x, mid, hi) ELSE ISqrt(x, lo, mid - 1)

\* math.sqrt(a)
FSqrt(a) == ISqrt(a * Scale, 0, 46340)

\* math.log(n) for n = 1..10, to three places
LnTable == <<0, 693, 1099, 1386, 1609, 1792, 1946, 2079, 2197, 2303>>

\* math.log(n / d)
Ln(n, d) == LnTable[n] - LnTable[d]

RECURSIVE SumSeq(_)
SumSeq(s) == IF s = <<>> THEN 0 ELSE Head(s) + SumSeq(Tail(s))

\* Lexicographic order of two tuples of numbers of the same length.
RECURSIVE LexLess(_, _)
LexLess(k1, k2) ==
    IF k1 = <<>> THEN FALSE
    ELSE IF Head(k1) # Head(k2) THEN Head(k1) < Head(k2)
    ELSE LexLess(Tail(k1), Tail(k2))

RECURSIVE InsertDesc(_, _)
\* Insert the pair x = <<key, item>> behind every pair whose key is >= its key.
InsertDesc(sorted, x) ==
    IF sorted = <<>> THEN <<x>>
    ELSE IF LexLess(Head(sorted)[1], x[1]) THEN <<x>> \o sorted
    ELSE <<Head(sorted)>> \o InsertDesc(Tail(sorted), x)

RECURSIVE SortPairsDesc(_, _)
SortPairsDesc(pairs, k) ==
    IF k = 0 THEN <<>> ELSE InsertDesc(SortPairsDesc(pairs, k - 1), pairs[k])

\* sorted(items, key=..., reverse=True): descending by key, and stable, so items
\* of equal key keep their order. keys[i] is the key of items[i].
SortDesc(items, keys) ==
    LET pairs == [i \in 1..Len(items) |-> <<keys[i], items[i]>>]
        out == SortPairsDesc(pairs, Len(pairs))
    IN  [i \in 1..Len(out) |-> out[i][2]]

\* ---------------------------------------------------------- index build
Terms == {"a", "b"}

\* 1 + math.log(f) if f > 0 else 0.0
TfWeight(f) == IF f > 0 THEN Scale + Ln(f, 1) ELSE 0

\* invert.py: math.log(doc_count / df) if df > 0 else 0.0
\* web_indexer.py: math.log((num_docs + 1) / (df + 1)) + 1
Idf(eng, n, df) ==
    IF eng = "cacm"
    THEN IF df > 0 THEN Ln(n, df) ELSE 0
    ELSE Ln(n + 1, df + 1) + Scale

\* The tokens met in the documents.
TermsIn(docs) == UNION {DOMAIN docs[i].tf : i \in 1..Len(docs)}

\* The documents holding term t with their raw frequency, in input order.
DocFreqs(docs, t) ==
    SelectSeq([i \in 1..Len(docs) |-> [doc_id |-> docs[i].id, freq |-> docs[i].tf[t]]],
              LAMBDA p : p.freq > 0)

\* index / term_doc_freq: only terms that occur somewhere have an entry
BuildTable(docs) ==
    [t \in {x \in TermsIn(docs) : DocFreqs(docs, x) # <<>>} |-> DocFreqs(docs, t)]

\* The weights of one term's documents (the body of the loop over terms).
TermWeights(eng, n, docfreqs) ==
    [i \in 1..Len(docfreqs) |->
        [doc_id |-> docfreqs[i].doc_id,
         freq   |-> docfreqs[i].freq,
         tf     |-> TfWeight(docfreqs[i].freq),
         df     |-> Len(docfreqs),
         idf    |-> Idf(eng, n, Len(docfreqs)),
         weight |-> FMul(TfWeight(docfreqs[i].freq), Idf(eng, n, Len(docfreqs)))]]

BuildStats(eng, docs, table) ==
    [t \in DOMAIN table |-> TermWeights(eng, Len(docs), table[t])]

MutSumSquares(stats, did, terms) ==
    IF terms = {} THEN 0
    ELSE LET t == CHOOSE x \in terms : TRUE
             mine == SelectSeq(stats[t], LAMBDA p : p.doc_id = did)
         IN  IF mine = <<>> THEN 0 ELSE FMul(mine[1].weight, mine[1].weight)

RECURSIVE SumSquares(_, _, _)
\* norm_sums[did] += w ** 2, over the terms still to be processed
SumSquares(stats, did, terms) ==
    IF terms = {} THEN 0
    ELSE LET t == CHOOSE x \in terms : TRUE
             mine == SelectSeq(stats[t], LAMBDA p : p.doc_id = did)
         IN  (IF mine = <<>> THEN 0 ELSE FMul(mine[1].weight, mine[1].weight))
             + SumSquares(stats, did, terms \ {t})

\* The documents some term touches.
TouchedDocs(stats) ==
    UNION {{stats[t][i].doc_id : i \in 1..Len(stats[t])} : t \in DOMAIN stats}

\* norm_sums is a defaultdict(float): only documents touched by a term are keys
BuildNormSums(stats) ==
    [did \in TouchedDocs(stats) |-> SumSquares(stats, did, DOMAIN stats)]

\* math.sqrt(norm_sums[did]) if norm_sums[did] > 0 else 0.0
NormOf(sums, did) ==
    IF did \in DOMAIN sums /\ sums[did] > 0 THEN FSqrt(sums[did]) ELSE 0

\* invert.py's key=(tf, weight, -did), reverse=True
CacmOrder(stat) ==
    SortDesc(stat, [i \in 1..Len(stat) |->
                       <<stat[i].tf, stat[i].weight, -stat[i].doc_id>>])

\* web_indexer.py's key=weight, reverse=True
WebOrder(stat) ==
    SortDesc(stat, [i \in 1..Len(stat) |-> <<stat[i].weight>>])

\* nw = weight / norm if norm else 0.0
NormWeight(w, norm) == IF norm # 0 THEN FDiv(w, norm) ELSE 0

MutEmitPostings(eng, stat, sums) ==
    IF eng = "cacm"
    THEN LET ordered == CacmOrder(stat)
         IN  [i \in 1..Len(ordered) |->
                 [doc_id |-> ordered[i].doc_id,
                  freq   |-> ordered[i].freq,
                  tf     |-> ordered[i].tf,
                  df     |-> ordered[i].df,
                  idf    |-> ordered[i].idf,
                  weight |-> ordered[i].weight,
                  nw     |-> NormWeight(ordered[i].weight,
                                        FSqrt(FMul(ordered[i].weight,
                                                   ordered[i].weight)))]]
    ELSE LET ordered == WebOrder(stat)
         IN  [i \in 1..Len(ordered) |->
                 [doc_id |-> ordered[i].doc_id, weight |-> ordered[i].weight]]

\* The postings line of one term. invert.py writes every field; web_indexer.py
\* keeps doc_id and weight.
EmitPostings(eng, stat, sums) ==
    IF eng = "cacm"
    THEN LET ordered == CacmOrder(stat)
         IN  [i \in 1..Len(ordered) |->
                 [doc_id |-> ordered[i].doc_id,
                  freq   |-> ordered[i].freq,
                  tf     |-> ordered[i].tf,
                  df     |-> ordered[i].df,
                  idf    |-> ordered[i].idf,
                  weight |-> ordered[i].weight,
                  nw     |-> NormWeight(ordered[i].weight,
                                        NormOf(sums, ordered[i].doc_id))]]
    ELSE LET ordered == WebOrder(stat)
         IN  [i \in 1..Len(ordered) |->
                 [doc_id |-> ordered[i].doc_id, weight |-> ordered[i].weight]]

BuildPostings(eng, stats, sums) ==
    [t \in DOMAIN stats |-> EmitPostings(eng, stats[t], sums)]

BuildDictionary(stats) ==
    [t \in DOMAIN stats |-> [df |-> stats[t][1].df, idf |-> stats[t][1].idf]]

\* web_indexer.py: {doc_id: math.sqrt(value) ... if value > 0};
\* invert.py has no norms file (the norm is folded into nw)
BuildDocNorms(eng, sums) ==
    IF eng = "web"
    THEN [did \in {d \in DOMAIN sums : sums[d] > 0} |-> FSqrt(sums[did])]
    ELSE <<>>

\* ---- inputs
\* What one document holds of each term.
DocShapes ==
    {("a" :> 0 @@ "b" :> 0), ("a" :> 1 @@ "b" :> 0),
     ("a" :> 0 @@ "b" :> 1), ("a" :> 2 @@ "b" :> 1)}

\* The ids of n documents in the order the input gives them.
IdOrders(n) == {[i \in 1..n |-> i], [i \in 1..n |-> n + 1 - i]}

Corpora ==
    UNION {{[i \in 1..n |-> [id |-> ids[i], tf |-> shapes[i]]] :
               ids \in IdOrders(n), shapes \in [1..n -> DocShapes]} :
           n \in 1..MaxDocs}

IndexInit ==
    /\ engine \in {"cacm", "web"}
    /\ corpus \in Corpora
    /\ ix_pc = "start"
    /\ index = <<>>
    /\ term_stats = <<>>
    /\ norm_sums = <<>>
    /\ dictionary = <<>>
    /\ postings = <<>>
    /\ doc_norms = <<>>

\* No index build in this run.
IndexIdle ==
    /\ engine = "none"
    /\ corpus = <<>>
    /\ ix_pc = "idle"
    /\ index = <<>>
    /\ term_stats = <<>>
    /\ norm_sums = <<>>
    /\ dictionary = <<>>
    /\ postings = <<>>
    /\ doc_norms = <<>>

\* Pass over the documents: collect each term's documents and frequencies.
IndexDocs ==
    /\ ix_pc = "start"
    /\ index' = BuildTable(corpus)
    /\ ix_pc' = "indexed"
    /\ UNCHANGED <<engine, corpus, term_stats, norm_sums, dictionary, postings,
                   doc_norms, rankVars, searchVars, normVars, restVars>>

\* Loop over the terms: idf, weights and the sums of squared weights.
\* web_indexer.py sorts each term's postings and fills the dictionary in this loop.
WeighTerms ==
    /\ ix_pc = "indexed"
    /\ LET stats == BuildStats(engine, corpus, index)
       IN  /\ term_stats' = stats
           /\ norm_sums' = BuildNormSums(stats)
           /\ IF engine = "web"
              THEN /\ dictionary' = BuildDictionary(stats)
                   /\ postings' = BuildPostings(engine, stats, <<>>)
              ELSE UNCHANGED <<dictionary, postings>>
    /\ ix_pc' = "weighted"
    /\ UNCHANGED <<engine, corpus, index, doc_norms, rankVars, searchVars,
                   normVars, restVars>>

\* invert.py: write dictionary and postings, each term's postings ordered, nw
\* from the finished norms. web_indexer.py: doc_norms, and return.
Emit ==
    /\ ix_pc = "weighted"
    /\ IF engine = "cacm"
       THEN /\ dictionary' = BuildDictionary(term_stats)
            /\ postings' = BuildPostings(engine, term_stats, norm_sums)
       ELSE UNCHANGED <<dictionary, postings>>
    /\ doc_norms' = BuildDocNorms(engine, norm_sums)
    /\ ix_pc' = "emitted"
    /\ UNCHANGED <<engine, corpus, index, term_stats, norm_sums, rankVars,
                   searchVars, normVars, restVars>>

\* ---------------------------------------------------------- query engine
Min(a, b) == IF a < b THEN a ELSE b

\* query_terms.count(term)
Count(q, t) == Cardinality({i \in 1..Len(q) : q[i] = t})

RECURSIVE Distinct(_)
\* The distinct tokens of q in order of first occurrence: the key order of the
\* dict filled while looping over q.
Distinct(q) ==
    IF q = <<>> THEN <<>>
    ELSE LET r == Distinct(SubSeq(q, 1, Len(q) - 1))
         IN  IF q[Len(q)] \in Range(r) THEN r ELSE Append(r, q[Len(q)])

\* task1/search.py evaluateTerm: the term's line of the postings file, or
\* df = 0, idf = 0 and no postings when the file has no such line.
EvaluateTerm(post, t) ==
    IF t \in DOMAIN post
    THEN [df |-> post[t][1].df,
          idf |-> post[t][1].idf,
          postings |-> [i \in 1..post[t][1].df |->
                           [doc_id |-> post[t][i].doc_id, value |-> post[t][i].nw]]]
    ELSE [df |-> 0, idf |-> 0, postings |-> <<>>]

\* vector['terms'][term] of task1/search.py evaluate
TermEntry(q, post, t) ==
    LET td == EvaluateTerm(post, t)
    IN  [term |-> t,
         f |-> Count(q, t),
         tf |-> TfWeight(Count(q, t)),
         idf |-> td.idf,
         w |-> FMul(TfWeight(Count(q, t)), td.idf),
         postings |-> td.postings]

\* math.sqrt(norm_sums) if norm_sums > 0 else 0.0
NormOfSum(ns) == IF ns > 0 THEN FSqrt(ns) ELSE 0

\* task1/search.py evaluate: the loop runs once per token of the query, and
\* each pass adds the token's squared weight to norm_sums.
CacmEvaluate(q, post) ==
    LET ns == SumSeq([i \in 1..Len(q) |->
                         FMul(TermEntry(q, post, q[i]).w, TermEntry(q, post, q[i]).w)])
    IN  [terms |-> [i \in 1..Len(Distinct(q)) |-> TermEntry(q, post, Distinct(q)[i])],
         norm_sums |-> ns,
         norm |-> NormOfSum(ns)]

\* web_search.py search: query_weights over term_freqs, terms missing from
\* the dictionary skipped; query_norm = math.sqrt(query_norm_sum)
WebEvaluate(q, dict, post) ==
    LET known == SelectSeq(Distinct(q), LAMBDA t : t \in DOMAIN dict)
        terms == [i \in 1..Len(known) |->
                    [term |-> known[i],
                     f |-> Count(q, known[i]),
                     tf |-> Scale + Ln(Count(q, known[i]), 1),
                     idf |-> dict[known[i]].idf,
                     w |-> FMul(Scale + Ln(Count(q, known[i]), 1), dict[known[i]].idf),
                     postings |-> [k \in 1..Len(Get(post, known[i], <<>>)) |->
                                      [doc_id |-> post[known[i]][k].doc_id,
                                       value |-> post[known[i]][k].weight]]]]
        ns == SumSeq([i \in 1..Len(terms) |-> FMul(terms[i].w, terms[i].w)])
    IN  [terms |-> terms, norm_sums |-> ns, norm |-> FSqrt(ns)]

MutAddScore(s, did, x) ==
    IF \E i \in 1..Len(s) : s[i].doc_id = did
    THEN [i \in 1..Len(s) |->
             IF s[i].doc_id = did THEN [s[i] EXCEPT !.score = x] ELSE s[i]]
    ELSE Append(s, [doc_id |-> did, score |-> x])

\* scores[did] += x on a dict that keeps insertion order
AddScore(s, did, x) ==
    IF \E i \in 1..Len(s) : s[i].doc_id = did
    THEN [i \in 1..Len(s) |->
             IF s[i].doc_id = did THEN [s[i] EXCEPT !.score = @ + x] ELSE s[i]]
    ELSE Append(s, [doc_id |-> did, score |-> x])

\* How many of a term's postings are scored. task1/search.py compare breaks
\* at index >= top_k; web_search.py search walks the whole list.
Window(eng, posts, k) ==
    IF eng = "cacm" THEN Min(k, Len(posts)) ELSE Len(posts)

\* What a query term multiplies each posting by. task1/search.py: the term's
\* weight over the query norm, 0.0 when the norm is 0; web_search.py: q_weight.
QueryFactor(eng, w, norm) ==
    IF eng = "cacm"
    THEN IF norm # 0 THEN FDiv(w, norm) ELSE 0
    ELSE w

RECURSIVE ScanPostings(_, _, _, _, _)
\* for index, did in enumerate(postings): sim[did] += value * factor
ScanPostings(s, posts, i, limit, factor) ==
    IF i > limit THEN s
    ELSE ScanPostings(AddScore(s, posts[i].doc_id, FMul(posts[i].value, factor)),
                      posts, i + 1, limit, factor)

RECURSIVE ScanTerms(_, _, _, _, _, _)
\* for term in query_vector['terms'] / query_weights
ScanTerms(s, terms, j, eng, k, norm) ==
    IF j > Len(terms) THEN s
    ELSE ScanTerms(ScanPostings(s, terms[j].postings, 1,
                                Window(eng, terms[j].postings, k),
                                QueryFactor(eng, terms[j].w, norm)),
                   terms, j + 1, eng, k, norm)

\* web_search.py: documents without a (non-zero) norm are skipped
WithNorm(scores, norms) ==
    SelectSeq(scores, LAMBDA e : Get(norms, e.doc_id, 0) # 0)

\* web_search.py: cos_scores[doc_id] = numerator / (doc_norm * query_norm)
WebCosine(scores, norms, qnorm) ==
    [i \in 1..Len(WithNorm(scores, norms)) |->
        [doc_id |-> WithNorm(scores, norms)[i].doc_id,
         score |-> FDiv(WithNorm(scores, norms)[i].score,
                        FMul(norms[WithNorm(scores, norms)[i].doc_id], qnorm))]]

\* The cosine scores of the candidates, in insertion order.
CosineScores(eng, qv, k, norms) ==
    IF eng = "cacm"
    THEN ScanTerms(<<>>, qv.terms, 1, eng, k, qv.norm)
    ELSE WebCosine(ScanTerms(<<>>, qv.terms, 1, eng, k, qv.norm), norms, qv.norm)

\* A division by zero in web_search.py's cosine step.
WebDividesByZero(qv, k, norms) ==
    \E e \in Range(WithNorm(ScanTerms(<<>>, qv.terms, 1, "web", k, qv.norm), norms)) :
        FMul(norms[e.doc_id], qv.norm) = 0

SetMin(S) == CHOOSE x \in S : \A y \in S : x <= y
SetMax(S) == CHOOSE x \in S : \A y \in S : x >= y

\* min and max of a set of rationals
RSetMin(S) == CHOOSE x \in S : \A y \in S : ~RLess(y, x)
RSetMax(S) == CHOOSE x \in S : \A y \in S : ~RLess(x, y)

\* x / y for a rational y > 0
RDiv(x, y) == RMul(x, <<y[2], y[1]>>)

\* normalize_scores (pagerank.py), on the rank vector power_iteration returned
PagerankNormalizeScores(ranks) ==
    IF DOMAIN ranks = {} THEN <<>>
    ELSE LET values == {ranks[doc] : doc \in DOMAIN ranks}
         IN  IF ~RGreater(RSub(RSetMax(values), RSetMin(values)), Zero)
             THEN [doc \in DOMAIN ranks |-> One]
             ELSE [doc \in DOMAIN ranks |->
                      RDiv(RSub(ranks[doc], RSetMin(values)),
                           RSub(RSetMax(values), RSetMin(values)))]

\* normalize (web_pagerank.py), on the rank vector power_iteration returned
WebPagerankNormalize(ranks) ==
    IF DOMAIN ranks = {} THEN <<>>
    ELSE LET values == {ranks[doc] : doc \in DOMAIN ranks}
         IN  IF ~RGreater(RSub(RSetMax(values), RSetMin(values)), Zero)
             THEN [doc \in DOMAIN ranks |-> One]
             ELSE [doc \in DOMAIN ranks |->
                      RDiv(RSub(ranks[doc], RSetMin(values)),
                           RSub(RSetMax(values), RSetMin(values)))]

MutNormalizeScores(scores) ==
    IF DOMAIN scores = {} THEN <<>>
    ELSE LET vals == {scores[d] : d \in DOMAIN scores}
         IN  IF SetMax(vals) - SetMin(vals) <= 0
             THEN [d \in DOMAIN scores |-> Scale]
             ELSE [d \in DOMAIN scores |->
                      FDiv(scores[d] - SetMin(vals), SetMax(vals))]

\* normalize_scores (web_search.py), on the scores read from the rank file
NormalizeScores(scores) ==
    IF DOMAIN scores = {} THEN <<>>
    ELSE LET vals == {scores[d] : d \in DOMAIN scores}
         IN  IF SetMax(vals) - SetMin(vals) <= 0
             THEN [d \in DOMAIN scores |-> Scale]
             ELSE [d \in DOMAIN scores |->
                      FDiv(scores[d] - SetMin(vals), SetMax(vals) - SetMin(vals))]

\* load_pagerank_scores (task1/search.py): the scores of the file, min-max
\* normalized in place when normalize is set and the file has a score
LoadPagerankScores(scores, normalize) ==
    IF normalize /\ DOMAIN scores # {}
    THEN LET vals == {scores[d] : d \in DOMAIN scores}
         IN  IF SetMax(vals) - SetMin(vals) > 0
             THEN [d \in DOMAIN scores |->
                      FDiv(scores[d] - SetMin(vals), SetMax(vals) - SetMin(vals))]
             ELSE [d \in DOMAIN scores |-> Scale]
    ELSE scores

\* The rank scores combine_scores receives; the empty function stands for both
\* None and {}, which `not pagerank_scores` does not tell apart.
\* task1/search.py loads the file only if pagerank_path and w_pr != 0.0.
RankScores(eng, file, wpr, flag) ==
    IF ~file.supplied \/ (eng = "cacm" /\ wpr = 0) THEN <<>>
    ELSE IF eng = "cacm" THEN LoadPagerankScores(file.scores, flag)
    ELSE IF flag THEN NormalizeScores(file.scores) ELSE file.scores

\* search (task1/search.py) calls load_pagerank_scores only with a path and
\* w_pr != 0.0
LoadsRanks(eng, file, wpr) == eng = "cacm" /\ file.supplied /\ wpr # 0

MutCacheKey(flag) ==
    <<"pagerank_path">>

\* load_pagerank_scores: cache_key = (path, normalize)
CacheKey(flag) ==
    <<"pagerank_path", flag>>

\* The rank scores of a call: the cached scores of the key when
\* load_pagerank_scores finds it in _PAGERANK_CACHE, else the scores loaded.
CachedRankScores(eng, file, wpr, flag, cache) ==
    IF LoadsRanks(eng, file, wpr) /\ CacheKey(flag) \in DOMAIN cache
    THEN cache[CacheKey(flag)]
    ELSE RankScores(eng, file, wpr, flag)

\* _PAGERANK_CACHE[cache_key] = scores after a load
CacheAfter(eng, file, wpr, flag, cache) ==
    IF LoadsRanks(eng, file, wpr) /\ CacheKey(flag) \notin DOMAIN cache
    THEN (CacheKey(flag) :> LoadPagerankScores(file.scores, flag)) @@ cache
    ELSE cache

\* task1/search.py combine_scores divides both weights by their sum when the
\* sum is not 0 and differs from 1; web_search.py combine_scores uses w1, w2.
EffectiveWeights(eng, wc, wp) ==
    IF eng = "cacm" /\ wc + wp # 0 /\ Abs(wc + wp - Scale) > 0
    THEN <<FDiv(wc, wc + wp), FDiv(wp, wc + wp)>>
    ELSE <<wc, wp>>

MutCombineScores(eng, s, prs, wc, wp) ==
    [i \in 1..Len(s) |->
        [doc_id |-> s[i].doc_id,
         score |-> FMul(EffectiveWeights(eng, wc, wp)[1], s[i].score)
                   + FMul(EffectiveWeights(eng, wc, wp)[2], Get(prs, s[i].doc_id, 0))]]

\* combine_scores
CombineScores(eng, s, prs, wc, wp) ==
    IF DOMAIN prs = {} \/ EffectiveWeights(eng, wc, wp)[2] = 0 THEN s
    ELSE [i \in 1..Len(s) |->
             [doc_id |-> s[i].doc_id,
              score |-> FMul(EffectiveWeights(eng, wc, wp)[1], s[i].score)
                        + FMul(EffectiveWeights(eng, wc, wp)[2], Get(prs, s[i].doc_id, 0))]]

\* The sort without reverse=True: lowest score first.
MutSortByScore(s) == SortDesc(s, [i \in 1..Len(s) |-> <<0 - s[i].score>>])

\* sorted(combined.items(), key=lambda item: item[1], reverse=True)
SortByScore(s) == SortDesc(s, [i \in 1..Len(s) |-> <<s[i].score>>])

\* task1/search.py returns the whole sorted list; web_search.py cuts it at top_k.
Returned(eng, sorted, k) ==
    IF eng = "cacm" THEN sorted ELSE SubSeq(sorted, 1, Min(k, Len(sorted)))

\* search, from the cosine scores on.
RankedList(eng, s, file, wc, wp, flag, k) ==
    Returned(eng, SortByScore(CombineScores(eng, s, RankScores(eng, file, wp, flag), wc, wp)), k)

\* ---- inputs
MaxQLen == 2
MaxK == 2
MaxCand == 2

QueryTokens == Terms \cup {"u"}

Queries == UNION {[1..n -> QueryTokens] : n \in 0..MaxQLen}

NoRankFile == [supplied |-> FALSE, scores |-> <<>>]

\* Raw rank scores of documents 1..n, rising with the id.
SkewedRanks(n) == [d \in 1..n |-> FDiv(d, (n * (n + 1)) \div 2)]

RankFiles(n) ==
    {NoRankFile,
     [supplied |-> TRUE, scores |-> <<>>],
     [supplied |-> TRUE, scores |-> [d \in 1..n |-> FDiv(1, n)]],
     [supplied |-> TRUE, scores |-> SkewedRanks(n)],
     [supplied |-> TRUE, scores |-> [d \in 2..n |-> SkewedRanks(n)[d]]]}

Weights == {0, 300, 700, 1000}

\* The fusion settings tried with whole searches.
SearchFusions(n) ==
    {[wc |-> 1000, wp |-> 0, file |-> NoRankFile, flag |-> TRUE],
     [wc |-> 700, wp |-> 300, file |-> [supplied |-> TRUE, scores |-> SkewedRanks(n)],
      flag |-> TRUE],
     [wc |-> 0, wp |-> 1000,
      file |-> [supplied |-> TRUE, scores |-> [d \in 2..n |-> SkewedRanks(n)[d]]],
      flag |-> FALSE],
     [wc |-> 700, wp |-> 300, file |-> NoRankFile, flag |-> TRUE],
     [wc |-> 0, wp |-> 0, file |-> [supplied |-> TRUE, scores |-> SkewedRanks(n)],
      flag |-> FALSE]}

\* Documents without an empty one, for whole searches.
SearchCorpora ==
    {c \in Corpora : \A i \in 1..Len(c) :
        c[i].id = i /\ \E t \in Terms : c[i].tf[t] > 0}

BuiltIndex(eng, docs) ==
    LET table == BuildTable(docs)
        stats == BuildStats(eng, docs, table)
        sums == BuildNormSums(stats)
    IN  [index |-> table, term_stats |-> stats, norm_sums |-> sums,
         dictionary |-> BuildDictionary(stats),
         postings |-> BuildPostings(eng, stats, sums),
         doc_norms |-> BuildDocNorms(eng, sums)]

\* A search over the artifacts of a finished index build.
SearchInit ==
    /\ engine \in {"cacm", "web"}
    /\ corpus \in SearchCorpora
    /\ ix_pc = "emitted"
    /\ index = BuiltIndex(engine, corpus).index
    /\ term_stats = BuiltIndex(engine, corpus).term_stats
    /\ norm_sums = BuiltIndex(engine, corpus).norm_sums
    /\ dictionary = BuiltIndex(engine, corpus).dictionary
    /\ postings = BuiltIndex(engine, corpus).postings
    /\ doc_norms = BuiltIndex(engine, corpus).doc_norms
    /\ query \in Queries
    /\ top_k \in 1..MaxK
    /\ \E fu \in SearchFusions(Len(corpus)) :
          /\ w_cos = fu.wc
          /\ w_pr = fu.wp
          /\ pagerank_file = fu.file
          /\ normalize_pr = fu.flag
    /\ query_vector = [terms |-> <<>>, norm_sums |-> 0, norm |-> 0]
    /\ sim = <<>>
    /\ result = <<>>
    /\ s_pc \in (IF engine = "cacm" /\ query # <<>> THEN {"cli", "start"} ELSE {"start"})
    /\ pr_cache = <<>>

\* No search in this run.
SearchIdle ==
    /\ query = <<>>
    /\ top_k = 0
    /\ w_cos = 0
    /\ w_pr = 0
    /\ pagerank_file = NoRankFile
    /\ normalize_pr = FALSE
    /\ query_vector = [terms |-> <<>>, norm_sums |-> 0, norm |-> 0]
    /\ sim = <<>>
    /\ result = <<>>
    /\ s_pc = "idle"
    /\ pr_cache = <<>>

\* Cosine scores of up to MaxCand candidates, in any insertion order.
Sims ==
    UNION {{[i \in 1..Len(ds) |-> [doc_id |-> ds[i], score |-> sc[i]]] :
               sc \in [1..Len(ds) -> {0, 500, 1000}]} :
           ds \in {d \in UNION {[1..n -> 1..MaxCand] : n \in 0..MaxCand} :
                      \A i, j \in 1..Len(d) : i # j => d[i] # d[j]}}

\* combine_scores and the final sort on given cosine scores.
FusionInit ==
    /\ engine \in {"cacm", "web"}
    /\ corpus = <<>>
    /\ ix_pc = "idle"
    /\ index = <<>>
    /\ term_stats = <<>>
    /\ norm_sums = <<>>
    /\ dictionary = <<>>
    /\ postings = <<>>
    /\ doc_norms = <<>>
    /\ query = <<>>
    /\ top_k \in 1..MaxK
    /\ w_cos \in Weights
    /\ w_pr \in Weights
    /\ pagerank_file \in RankFiles(MaxCand)
    /\ normalize_pr \in BOOLEAN
    /\ query_vector = [terms |-> <<>>, norm_sums |-> 0, norm |-> 0]
    /\ sim \in Sims
    /\ result = <<>>
    /\ s_pc = "compared"
    /\ pr_cache = <<>>

\* index.py main: the checks on --w1, --w2 and --pagerank before the query loop
\* calls search; p.error leaves the program.
ParseArgs ==
    /\ s_pc = "cli"
    /\ s_pc' = IF Abs(w_cos + w_pr - Scale) > 0 \/ (w_pr > 0 /\ ~pagerank_file.supplied)
               THEN "rejected"
               ELSE "start"
    /\ UNCHANGED <<query, top_k, w_cos, w_pr, pagerank_file, normalize_pr,
                   query_vector, sim, result, pr_cache, rankVars, indexVars,
                   normVars, restVars>>

\* evaluate (task1/search.py); tokens to query_norm, with the two early
\* returns of an empty list (web_search.py).
Evaluate ==
    /\ s_pc = "start"
    /\ IF engine = "cacm"
       THEN /\ query_vector' = CacmEvaluate(query, postings)
            /\ s_pc' = "evaluated"
            /\ result' = result
       ELSE IF query = <<>>
       THEN /\ query_vector' = query_vector
            /\ s_pc' = "done"
            /\ result' = <<>>
       ELSE LET qv == WebEvaluate(query, dictionary, postings)
            IN  /\ query_vector' = qv
                /\ s_pc' = IF qv.terms = <<>> \/ qv.norm = 0 THEN "done" ELSE "evaluated"
                /\ result' = IF qv.terms = <<>> \/ qv.norm = 0 THEN <<>> ELSE result
    /\ UNCHANGED <<query, top_k, w_cos, w_pr, pagerank_file, normalize_pr, sim,
                   pr_cache, rankVars, indexVars, normVars, restVars>>

\* compare (task1/search.py); scores and cos_scores (web_search.py).
Compare ==
    /\ s_pc = "evaluated"
    /\ IF engine = "web" /\ WebDividesByZero(query_vector, top_k, doc_norms)
       THEN /\ s_pc' = "raised"
            /\ sim' = sim
       ELSE /\ s_pc' = "compared"
            /\ sim' = CosineScores(engine, query_vector, top_k, doc_norms)
    /\ UNCHANGED <<query, top_k, w_cos, w_pr, pagerank_file, normalize_pr,
                   query_vector, result, pr_cache, rankVars, indexVars, normVars, restVars>>

\* Load the rank scores, combine, sort and return.
Rank ==
    /\ s_pc = "compared"
    /\ result' = Returned(engine,
                          SortByScore(CombineScores(engine, sim,
                              CachedRankScores(engine, pagerank_file, w_pr,
                                               normalize_pr, pr_cache),
                              w_cos, w_pr)),
                          top_k)
    /\ pr_cache' = CacheAfter(engine, pagerank_file, w_pr, normalize_pr, pr_cache)
    /\ s_pc' = "done"
    /\ UNCHANGED <<query, top_k, w_cos, w_pr, pagerank_file, normalize_pr,
                   query_vector, sim, rankVars, indexVars, normVars, restVars>>

\* ---- a session: several searches of one process over the same artifacts
SessionCorpora == {c \in SearchCorpora : Len(c) = 2}

SessionWeights == {<<1000, 0>>, <<700, 300>>, <<0, 1000>>}

SessionQueries ==
    {q \in Queries : Len(q) <= 1} \cup {<<"a", "b">>, <<"b", "a">>}

\* The index REPL and eval.py call search again and again; the module-level
\* _PAGERANK_CACHE lives as long as the process.
SessionInit ==
    /\ engine \in {"cacm", "web"}
    /\ corpus \in SessionCorpora
    /\ ix_pc = "emitted"
    /\ index = BuiltIndex(engine, corpus).index
    /\ term_stats = BuiltIndex(engine, corpus).term_stats
    /\ norm_sums = BuiltIndex(engine, corpus).norm_sums
    /\ dictionary = BuiltIndex(engine, corpus).dictionary
    /\ postings = BuiltIndex(engine, corpus).postings
    /\ doc_norms = BuiltIndex(engine, corpus).doc_norms
    /\ query \in SessionQueries
    /\ top_k \in 1..MaxK
    /\ \E w \in SessionWeights : w_cos = w[1] /\ w_pr = w[2]
    /\ \E b \in BOOLEAN :
          pagerank_file = [supplied |-> b, scores |-> SkewedRanks(Len(corpus))]
    /\ normalize_pr \in BOOLEAN
    /\ query_vector = [terms |-> <<>>, norm_sums |-> 0, norm |-> 0]
    /\ sim = <<>>
    /\ result = <<>>
    /\ s_pc = "start"
    /\ pr_cache = <<>>

\* The next call of search in the same process: new arguments, the artifacts
\* on disk and the cache as the calls before left them.
NewQuery ==
    /\ s_pc = "done"
    /\ query' \in SessionQueries
    /\ top_k' \in 1..MaxK
    /\ \E w \in SessionWeights : w_cos' = w[1] /\ w_pr' = w[2]
    /\ \E b \in BOOLEAN :
          pagerank_file' = [supplied |-> b, scores |-> pagerank_file.scores]
    /\ normalize_pr' \in BOOLEAN
    /\ query_vector' = [terms |-> <<>>, norm_sums |-> 0, norm |-> 0]
    /\ sim' = <<>>
    /\ result' = <<>>
    /\ s_pc' = "start"
    /\ UNCHANGED <<pr_cache, rankVars, indexVars, normVars, restVars>>

SessionNext == NewQuery \/ Evaluate \/ Compare \/ Rank

SearchNext == ParseArgs \/ Evaluate \/ Compare \/ Rank

FusionNext == Rank

IndexNext == IndexDocs \/ WeighTerms \/ Emit

\* No rank computation in this run.
RankIdle ==
    /\ pr_impl = "none"
    /\ doc_ids = <<>>
    /\ adjacency = <<>>
    /\ damping = Zero
    /\ max_iter = 0
    /\ tol = Zero
    /\ rank = <<>>
    /\ iteration = 0
    /\ delta = Inf
    /\ deltas = <<>>
    /\ pr_pc = "idle"
    /\ records = <<>>
    /\ returned = <<>>

\* No input file is read in this run.
LoadIdle ==
    /\ ld_impl = "none"
    /\ ld_lines = <<>>
    /\ ld_pos = 0
    /\ ld_out = <<>>
    /\ ld_pc = "idle"

\* No average precision is computed in this run.
EvalIdle ==
    /\ ev_results = <<>>
    /\ ev_relevant = <<>>
    /\ ev_pos = 0
    /\ ev_hits = 0
    /\ ev_sum = Zero
    /\ ev_ap = Zero
    /\ ev_pc = "idle"

\* No crawl in this run.
CrawlIdle ==
    /\ cr_seeds = <<>>
    /\ cr_max_pages = 0
    /\ cr_max_depth = 0
    /\ cr_web = <<>>
    /\ frontier = <<>>
    /\ visited = {}
    /\ discovered = {}
    /\ url_to_id = <<>>
    /\ doc_id_counter = 0
    /\ written = <<>>
    /\ fetched = <<>>
    /\ cr_pc = "idle"

RestIdle == LoadIdle /\ EvalIdle /\ CrawlIdle

\* No stand-alone normalization in this run.
NormIdle ==
    /\ nz_impl = "none"
    /\ raw_scores = <<>>
    /\ normalized = <<>>
    /\ nz_pc = "idle"

\* ---- the link graph: parse_citations (pagerank.py), build_graph (web_pagerank.py)
\* --relation: the relation code of the citation lines that count as links
RelationCode == 5

RECURSIVE SortedSeq(_)
\* sorted(S) for a set of ids
SortedSeq(S) ==
    IF S = {} THEN <<>>
    ELSE <<SetMin(S)>> \o SortedSeq(S \ {SetMin(S)})

\* The targets a record's lines add to its adjacency set in pagerank.py: every
\* line with the wanted relation code.
CitedTargets(rec, code) ==
    {rec.links[i].target : i \in {j \in 1..Len(rec.links) : rec.links[j].relation = code}}

\* parse_citations: ids and targets become documents, every one of them a key;
\* doc_ids.sort() at the end.
ParseCitations(recs, code) ==
    LET ids == {recs[i].id : i \in 1..Len(recs)}
        cited == UNION {CitedTargets(recs[i], code) : i \in 1..Len(recs)}
    IN  [doc_ids |-> SortedSeq(ids \cup cited),
         adjacency |-> [doc \in ids \cup cited |->
                          UNION {CitedTargets(recs[i], code) :
                                    i \in {j \in 1..Len(recs) : recs[j].id = doc}}]]

\* build_graph: a link counts when its URL is the URL of a document other than
\* the linking one; main takes doc_ids = sorted(adjacency.keys()).
\* A document's URL is modelled by its id.
BuildGraph(documents) ==
    LET ids == {documents[i].id : i \in 1..Len(documents)}
    IN  [doc_ids |-> SortedSeq(ids),
         adjacency |-> [doc \in ids |->
                          UNION {{documents[i].links[k].target : k \in
                                     {l \in 1..Len(documents[i].links) :
                                         /\ documents[i].links[l].target \in ids
                                         /\ documents[i].links[l].target # doc}} :
                                 i \in {j \in 1..Len(documents) : documents[j].id = doc}}]]

RECURSIVE NonDecreasing(_, _)
\* The non-decreasing sequences of length k over 1..m.
NonDecreasing(m, k) ==
    IF k = 0 THEN {<<>>}
    ELSE UNION {{Append(q, x) : x \in (IF q = <<>> THEN 1 ELSE q[Len(q)])..m} :
                   q \in NonDecreasing(m, k - 1)}

\* Link line number t of the 2 * n * (n + 1) possible lines over n records:
\* source 1..n, target 1..n+1 (n + 1 is no record of the input), relation
\* RelationCode or another code.
LinkLine(n, t) ==
    [source |-> ((t - 1) \div (2 * (n + 1))) + 1,
     target |-> (((t - 1) \div 2) % (n + 1)) + 1,
     relation |-> IF (t - 1) % 2 = 0 THEN RelationCode ELSE RelationCode - 1]

RECURSIVE LinksOf(_, _, _)
\* The lines of source doc, in input order.
LinksOf(n, q, doc) ==
    IF q = <<>> THEN <<>>
    ELSE (IF LinkLine(n, Head(q)).source = doc
          THEN <<[target |-> LinkLine(n, Head(q)).target,
                  relation |-> LinkLine(n, Head(q)).relation]>>
          ELSE <<>>) \o LinksOf(n, Tail(q), doc)

\* The inputs: n records with at most MaxEdges link lines in all; the pages of
\* the web corpus carry no relation code.
RecordSets(impl) ==
    UNION {{[doc \in 1..n |-> [id |-> doc, links |-> LinksOf(n, q, doc)]] :
               q \in {x \in UNION {NonDecreasing(2 * n * (n + 1), k) : k \in 0..MaxEdges} :
                         impl = "web" =>
                             \A i \in 1..Len(x) : LinkLine(n, x[i]).relation = RelationCode}} :
           n \in 0..MaxNodes}

GraphInit ==
    /\ pr_impl \in {"cacm", "web"}
    /\ records \in RecordSets(pr_impl)
    /\ doc_ids = <<>>
    /\ adjacency = <<>>
    /\ damping = Zero
    /\ max_iter = 0
    /\ tol = Zero
    /\ rank = <<>>
    /\ iteration = 0
    /\ delta = Inf
    /\ deltas = <<>>
    /\ pr_pc = "parse"
    /\ returned = <<>>

\* main: the graph is built from the input before power_iteration is called.
ReadGraph ==
    /\ pr_pc = "parse"
    /\ LET g == IF pr_impl = "cacm" THEN ParseCitations(records, RelationCode)
                ELSE BuildGraph(records)
       IN  /\ doc_ids' = g.doc_ids
           /\ adjacency' = g.adjacency
    /\ pr_pc' = "parsed"
    /\ UNCHANGED <<pr_impl, damping, max_iter, tol, rank, iteration, delta, deltas,
                   records, returned, indexVars, searchVars, normVars, restVars>>

GraphNext == ReadGraph

\* ---- reading the records of an input file
\* read_corpus (web_indexer.py), load_corpus (web_pagerank.py): JSON lines;
\* parse_cacm (invert.py), parse_citations (pagerank.py): CACM records;
\* load_pagerank_scores (task1/search.py): score lines.
Loaders ==
    {"read_corpus", "load_corpus", "parse_cacm", "parse_citations",
     "load_pagerank_scores"}

\* "good": the record parses. "bad": the record does not parse (a line that is
\* no JSON, a ".I" line whose id is no integer, a score line with one field or
\* a score that is no float). "bad_citation": a CACM record with a citation
\* line that does not parse.
RecordKinds(impl) ==
    IF impl \in {"parse_cacm", "parse_citations"}
    THEN {"good", "bad", "bad_citation"}
    ELSE {"good", "bad"}

\* json.loads(line) and int(parts[1]) are called outside any try; the score
\* line is parsed inside try/except ValueError and behind len(parts) < 2.
Raises(impl, rec) == rec.kind = "bad" /\ impl # "load_pagerank_scores"

LoadInit ==
    /\ ld_impl \in Loaders
    /\ \E n \in 0..MaxDocs : \E kinds \in [1..n -> RecordKinds(ld_impl)] :
          ld_lines = [i \in 1..n |-> [kind |-> kinds[i], id |-> i]]
    /\ ld_pos = 1
    /\ ld_out = <<>>
    /\ ld_pc = "reading"

\* One pass of `for line in handle`: the exception of an unparseable record
\* leaves the function; the score loader continues with the next line; a bad
\* citation line is skipped inside its record.
ReadRecord ==
    /\ ld_pc = "reading"
    /\ ld_pos <= Len(ld_lines)
    /\ IF Raises(ld_impl, ld_lines[ld_pos])
       THEN /\ ld_pc' = "raised"
            /\ UNCHANGED <<ld_pos, ld_out>>
       ELSE /\ ld_pc' = ld_pc
            /\ ld_pos' = ld_pos + 1
            /\ ld_out' = IF ld_lines[ld_pos].kind = "bad" THEN ld_out
                         ELSE Append(ld_out, ld_lines[ld_pos].id)
    /\ UNCHANGED <<ld_impl, ld_lines, rankVars, indexVars, searchVars, normVars,
                   evalVars, crawlVars>>

\* The end of the file: the records read are returned.
EndOfFile ==
    /\ ld_pc = "reading"
    /\ ld_pos > Len(ld_lines)
    /\ ld_pc' = "done"
    /\ UNCHANGED <<ld_impl, ld_lines, ld_pos, ld_out, rankVars, indexVars,
                   searchVars, normVars, evalVars, crawlVars>>

LoadNext == ReadRecord \/ EndOfFile

\* ---- min-max normalization as a function of its argument
NormImpls ==
    {"pagerank.normalize_scores", "web_pagerank.normalize",
     "web_search.normalize_scores", "search.load_pagerank_scores"}

RankSide(impl) == impl \in {"pagerank.normalize_scores", "web_pagerank.normalize"}

\* Rank vectors over the ids 1..n in eighths: positive entries that sum to 1.
Eighths(n) == {v \in [1..n -> 1..8] : SumSeq(v) = 8}

\* The vector as the implementation holds it: rationals in the rank programs,
\* the decimals of the rank file in the search programs.
RawScores(impl, v) ==
    IF RankSide(impl) THEN [d \in DOMAIN v |-> Rat(v[d], 8)]
    ELSE [d \in DOMAIN v |-> v[d] * (Scale \div 8)]

Normalized(impl, scores) ==
    CASE impl = "pagerank.normalize_scores" -> PagerankNormalizeScores(scores)
      [] impl = "web_pagerank.normalize" -> WebPagerankNormalize(scores)
      [] impl = "web_search.normalize_scores" -> NormalizeScores(scores)
      [] impl = "search.load_pagerank_scores" -> LoadPagerankScores(scores, TRUE)

NormInit ==
    /\ nz_impl \in NormImpls
    /\ \E n \in 1..MaxNodes : \E v \in Eighths(n) :
          raw_scores = RawScores(nz_impl, v)
    /\ normalized = <<>>
    /\ nz_pc = "start"

Normalize ==
    /\ nz_pc = "start"
    /\ normalized' = Normalized(nz_impl, raw_scores)
    /\ nz_pc' = "done"
    /\ UNCHANGED <<nz_impl, raw_scores, rankVars, indexVars, searchVars, restVars>>

NormNext == Normalize

\* ---- eval.py: average precision of one ranked list
MaxResults == 4
MaxRelevant == 2

\* The ids met in rankings and relevance judgements.
EvalIds == {2, 5, 7, 9}

\* One entry of a result list: the id, and whether int(doc_id) parses it.
ResultEntries ==
    [doc_id : EvalIds, numeric : {TRUE}] \cup {[doc_id |-> 5, numeric |-> FALSE]}

\* unique_preserve_order
UniquePreserveOrder(items) == Distinct(items)

MutPrecisionAt(hits, rnk) == Rat(1, rnk)

\* hits / rank
PrecisionAt(hits, rnk) == Rat(hits, rnk)

EvalInit ==
    /\ ev_results \in UNION {[1..n -> ResultEntries] : n \in 0..MaxResults}
    /\ ev_relevant \in UNION {[1..n -> {2, 5}] : n \in 0..MaxRelevant}
    /\ ev_pos = 1
    /\ ev_hits = 0
    /\ ev_sum = Zero
    /\ ev_ap = Zero
    /\ ev_pc = "start"

\* No relevant document: 0.0 is returned before the loop.
CheckRelevant ==
    /\ ev_pc = "start"
    /\ IF UniquePreserveOrder(ev_relevant) = <<>>
       THEN ev_pc' = "done" /\ ev_ap' = Zero
       ELSE ev_pc' = "loop" /\ ev_ap' = ev_ap
    /\ UNCHANGED <<ev_results, ev_relevant, ev_pos, ev_hits, ev_sum, rankVars,
                   indexVars, searchVars, normVars, loadVars, crawlVars>>

\* One pass of the loop over enumerate(results, start=1).
ScoreRank ==
    /\ ev_pc = "loop"
    /\ ev_pos <= Len(ev_results)
    /\ LET e == ev_results[ev_pos]
           hit == e.numeric /\ e.doc_id \in Range(UniquePreserveOrder(ev_relevant))
       IN  /\ ev_hits' = IF hit THEN ev_hits + 1 ELSE ev_hits
           /\ ev_sum' = IF hit THEN RAdd(ev_sum, PrecisionAt(ev_hits + 1, ev_pos))
                        ELSE ev_sum
    /\ ev_pos' = ev_pos + 1
    /\ UNCHANGED <<ev_results, ev_relevant, ev_ap, ev_pc, rankVars, indexVars,
                   searchVars, normVars, loadVars, crawlVars>>

\* return precision_sum / len(relevant)
ReturnAP ==
    /\ ev_pc = "loop"
    /\ ev_pos > Len(ev_results)
    /\ ev_ap' = RDivInt(ev_sum, Len(UniquePreserveOrder(ev_relevant)))
    /\ ev_pc' = "done"
    /\ UNCHANGED <<ev_results, ev_relevant, ev_pos, ev_hits, ev_sum, rankVars,
                   indexVars, searchVars, normVars, loadVars, crawlVars>>

EvalNext == CheckRelevant \/ ScoreRank \/ ReturnAP

InitEval ==
    EvalInit /\ RankIdle /\ IndexIdle /\ SearchIdle /\ NormIdle /\ LoadIdle /\ CrawlIdle

SpecEval == InitEval /\ [][EvalNext]_vars

\* ---- task2/webcrawler.py: one crawl
MaxPages == 2
MaxDepth == 1
MaxLinks == 2

\* The pages of the web, named by their normalized URL.
PageSeq == <<"a", "b", "c">>

Pages == Range(PageSeq)

\* None, the result of _normalize_url on a URL that is not http(s).
NoUrl == "none"

\* _normalize_url: the fragment is dropped, other schemes give None.
NormalizeUrl(url) ==
    IF url = "a#f" THEN "a"
    ELSE IF url = "mailto:x" THEN NoUrl
    ELSE url

\* The outlinks of a page as _fetch_page returns them: normalized URLs in
\* document order.
LinkLists ==
    {[i \in 1..Len(f) |-> PageSeq[f[i]]] :
        f \in {g \in UNION {[1..n -> 1..Len(PageSeq)] : n \in 0..MaxLinks} :
                  \A i, j \in 1..Len(g) : i < j => g[i] < g[j]}}
    \cup {<<"b", "b">>, <<"b", "a">>}

\* What a request of a page gives. "ok": an HTML page with a title that is
\* kept; "skip": a page whose title _should_skip_page rejects; "error": a
\* RequestException (status, content type, network); "robots": robots.txt
\* disallows the URL; "offsite": the URL is outside the allowed domain.
PageOutcomes ==
    {[kind |-> "ok", links |-> l] : l \in LinkLists}
    \cup {[kind |-> k, links |-> <<>>] : k \in {"skip", "error", "robots", "offsite"}}

\* The webs crawled: page c has no link or links back to a.
Webs == {w \in [Pages -> PageOutcomes] : w["c"].links \in {<<>>, <<"a">>}}

SeedLists ==
    {<<>>, <<"a">>, <<"a", "b">>, <<"b", "a">>, <<"a", "a">>, <<"a#f", "a">>,
     <<"mailto:x", "b">>}

\* __init__: the frontier holds the seeds at depth 0, everything else is empty.
CrawlInit ==
    /\ cr_seeds \in SeedLists
    /\ cr_max_pages \in -1..MaxPages
    /\ cr_max_depth \in -1..MaxDepth
    /\ cr_web \in Webs
    /\ frontier = [i \in 1..Len(cr_seeds) |->
                      [url |-> cr_seeds[i], depth |-> 0, parent |-> NoUrl]]
    /\ visited = {}
    /\ discovered = {}
    /\ url_to_id = <<>>
    /\ doc_id_counter = 0
    /\ written = <<>>
    /\ fetched = <<>>
    /\ cr_pc = "crawling"

\* The loop test without the page budget.
MutLoopRuns == frontier # <<>>

\* while self.frontier and self.doc_id_counter < self.config.max_pages
LoopRuns == frontier # <<>> /\ doc_id_counter < cr_max_pages

\* The entry popleft takes, and its normalized URL.
Entry == frontier[1]

EntryUrl == NormalizeUrl(Entry.url)

\* The tests before the fetch without the one on self.visited.
MutPassed ==
    IF EntryUrl = NoUrl THEN TRUE
    ELSE cr_web[EntryUrl].kind \in {"offsite", "robots"}

\* The four tests before the fetch that end the pass with `continue`.
Passed ==
    IF EntryUrl = NoUrl THEN TRUE
    ELSE IF EntryUrl \in visited THEN TRUE
    ELSE cr_web[EntryUrl].kind \in {"offsite", "robots"}

\* The depth test that also follows the links of a page at max_depth.
MutFollowsLinks(depth) == depth <= cr_max_depth

\* if depth < self.config.max_depth
FollowsLinks(depth) == depth < cr_max_depth

RECURSIVE Enqueue(_, _, _, _, _, _)
\* for link in outlinks: append the links that are inside the domain and
\* neither visited nor discovered. q is <<frontier, discovered>>, seen is
\* self.visited, which holds the page itself by now.
Enqueue(q, links, i, depth, parent, seen) ==
    IF i > Len(links) THEN q
    ELSE IF cr_web[links[i]].kind = "offsite"
            \/ links[i] \in seen
            \/ links[i] \in q[2]
    THEN Enqueue(q, links, i + 1, depth, parent, seen)
    ELSE Enqueue(<<Append(q[1], [url |-> links[i], depth |-> depth + 1,
                                 parent |-> parent]),
                   q[2] \cup {links[i]}>>,
                 links, i + 1, depth, parent, seen)

\* url_to_id[normalized_url] = doc_id
Put(f, k, v) == [x \in DOMAIN f \cup {k} |-> IF x = k THEN v ELSE f[x]]

\* A pass that ends before the fetch: the entry is dropped.
PassEntry ==
    /\ cr_pc = "crawling"
    /\ LoopRuns
    /\ Passed
    /\ frontier' = Tail(frontier)
    /\ UNCHANGED <<cr_seeds, cr_max_pages, cr_max_depth, cr_web, visited, discovered,
                   url_to_id, doc_id_counter, written, fetched, cr_pc, rankVars,
                   indexVars, searchVars, normVars, loadVars, evalVars>>

\* A pass whose fetch raises RequestException, or whose page is skipped by
\* its title: the URL is visited, nothing is written.
FetchDropped ==
    /\ cr_pc = "crawling"
    /\ LoopRuns
    /\ ~Passed
    /\ cr_web[EntryUrl].kind \in {"error", "skip"}
    /\ frontier' = Tail(frontier)
    /\ visited' = visited \cup {EntryUrl}
    /\ fetched' = Append(fetched, [url |-> EntryUrl, depth |-> Entry.depth])
    /\ UNCHANGED <<cr_seeds, cr_max_pages, cr_max_depth, cr_web, discovered,
                   url_to_id, doc_id_counter, written, cr_pc, rankVars, indexVars,
                   searchVars, normVars, loadVars, evalVars>>

\* A pass that fetches a page, writes its record and queues its links.
RecordPage ==
    /\ cr_pc = "crawling"
    /\ LoopRuns
    /\ ~Passed
    /\ cr_web[EntryUrl].kind = "ok"
    /\ visited' = visited \cup {EntryUrl}
    /\ fetched' = Append(fetched, [url |-> EntryUrl, depth |-> Entry.depth])
    /\ doc_id_counter' = doc_id_counter + 1
    /\ url_to_id' = Put(url_to_id, EntryUrl, doc_id_counter + 1)
    /\ written' = Append(written, [doc_id |-> doc_id_counter + 1, url |-> EntryUrl,
                                    depth |-> Entry.depth, parent |-> Entry.parent])
    /\ LET q == IF FollowsLinks(Entry.depth)
                THEN Enqueue(<<Tail(frontier), discovered>>, cr_web[EntryUrl].links,
                             1, Entry.depth, EntryUrl, visited \cup {EntryUrl})
                ELSE <<Tail(frontier), discovered>>
       IN  frontier' = q[1] /\ discovered' = q[2]
    /\ UNCHANGED <<cr_seeds, cr_max_pages, cr_max_depth, cr_web, cr_pc, rankVars,
                   indexVars, searchVars, normVars, loadVars, evalVars>>

\* The loop ends: the manifest is written.
WriteManifest ==
    /\ cr_pc = "crawling"
    /\ ~LoopRuns
    /\ cr_pc' = "done"
    /\ UNCHANGED <<cr_seeds, cr_max_pages, cr_max_depth, cr_web, frontier, visited,
                   discovered, url_to_id, doc_id_counter, written, fetched, rankVars,
                   indexVars, searchVars, normVars, loadVars, evalVars>>

CrawlNext == PassEntry \/ FetchDropped \/ RecordPage \/ WriteManifest

InitCrawl ==
    CrawlInit /\ RankIdle /\ IndexIdle /\ SearchIdle /\ NormIdle /\ LoadIdle /\ EvalIdle

SpecCrawl == InitCrawl /\ [][CrawlNext]_vars

\* ---- the three-document scenario: index build, then search
ScenarioText ==
    <<<<"cats", "and", "dogs">>, <<"dogs", "and", "birds">>, <<"cats", "and", "cats">>>>

ScenarioTerms == {"cats", "and", "dogs", "birds"}

\* freqs[tok] of one document after the stopword filter of the token loop.
TermFreqs(tokens, stopwords) ==
    [t \in ScenarioTerms |-> IF t \in stopwords THEN 0 ELSE Count(tokens, t)]

\* The three documents in every input order, indexed with and without the
\* stopword "and".
ScenarioCorpora ==
    {[i \in 1..3 |-> [id |-> p[i], tf |-> TermFreqs(ScenarioText[p[i]], stop)]] :
        p \in {f \in [1..3 -> 1..3] : \A i, j \in 1..3 : i # j => f[i] # f[j]},
        stop \in {{}, {"and"}}}

ScenarioQueries ==
    {<<"cats">>, <<"dogs">>, <<"birds">>, <<"cats", "dogs">>, <<"cats", "cats">>, <<"u">>}

\* The index build is about to run; the search waits for its files.
ScenarioInit ==
    /\ engine \in {"cacm", "web"}
    /\ corpus \in ScenarioCorpora
    /\ ix_pc = "start"
    /\ index = <<>>
    /\ term_stats = <<>>
    /\ norm_sums = <<>>
    /\ dictionary = <<>>
    /\ postings = <<>>
    /\ doc_norms = <<>>
    /\ query \in ScenarioQueries
    /\ top_k \in 1..MaxK
    /\ w_cos = Scale
    /\ w_pr = 0
    /\ pagerank_file = NoRankFile
    /\ normalize_pr \in BOOLEAN
    /\ query_vector = [terms |-> <<>>, norm_sums |-> 0, norm |-> 0]
    /\ sim = <<>>
    /\ result = <<>>
    /\ s_pc = "waiting"
    /\ pr_cache = <<>>

\* The search program starts on the files the finished build has written
\* (WebSearchEngine.__init__ loads them; search.py opens the postings file).
OpenIndex ==
    /\ s_pc = "waiting"
    /\ ix_pc = "emitted"
    /\ s_pc' = "start"
    /\ UNCHANGED <<query, top_k, w_cos, w_pr, pagerank_file, normalize_pr,
                   query_vector, sim, result, pr_cache, rankVars, indexVars,
                   normVars, restVars>>

ScenarioNext == IndexDocs \/ WeighTerms \/ Emit \/ OpenIndex \/ Evaluate \/ Compare \/ Rank

InitScenario == ScenarioInit /\ RankIdle /\ NormIdle /\ RestIdle

SpecScenario == InitScenario /\ [][ScenarioNext]_vars

\* An index build alone.
InitIndex == IndexInit /\ RankIdle /\ SearchIdle /\ NormIdle /\ RestIdle

SpecIndex == InitIndex /\ [][IndexNext]_vars

RankNext == Initialize \/ Iterate \/ Return

\* A rank computation alone.
InitRank == RankInit /\ IndexIdle /\ SearchIdle /\ NormIdle /\ RestIdle

SpecRank == InitRank /\ [][RankNext]_vars

\* A search over a built index.
InitSearch == SearchInit /\ RankIdle /\ NormIdle /\ RestIdle

SpecSearch == InitSearch /\ [][SearchNext]_vars

\* ---- graphs with a link to an id that is not in doc_ids
\* The id n + 1 is a link target and not a document.
OutsideGraphs(n) ==
    {[doc \in 1..n |-> {e[2] : e \in {x \in E : x[1] = doc}}] :
        E \in {X \in SUBSET ((1..n) \X (1..(n + 1))) :
                  Cardinality(X) <= MaxEdges /\ \E x \in X : x[2] = n + 1}}

OutsideInit ==
    /\ pr_impl \in {"cacm", "web"}
    /\ \E n \in 1..(MaxNodes - 1) :
          /\ doc_ids = IdSeq(n)
          /\ adjacency \in OutsideGraphs(n)
    /\ damping \in Dampings
    /\ max_iter \in 0..MaxIter
    /\ tol \in Tols
    /\ rank = <<>>
    /\ iteration = 0
    /\ delta = Inf
    /\ deltas = <<>>
    /\ pr_pc = "start"
    /\ records = <<>>
    /\ returned = <<>>

InitOutside == OutsideInit /\ IndexIdle /\ SearchIdle /\ NormIdle /\ RestIdle

SpecOutside == InitOutside /\ [][RankNext]_vars

\* ---- the three-node cycle 1 -> 2 -> 3 -> 1
CycleGraph == (1 :> {2}) @@ (2 :> {3}) @@ (3 :> {1})

\* doc_ids lists the three nodes in any order.
CycleOrders == {f \in [1..3 -> 1..3] : \A i, j \in 1..3 : i # j => f[i] # f[j]}

CycleInit ==
    /\ pr_impl \in {"cacm", "web"}
    /\ doc_ids \in CycleOrders
    /\ adjacency = CycleGraph
    /\ damping \in Dampings \cup {<<17, 20>>}
    /\ max_iter \in 0..MaxIter
    /\ tol \in Tols
    /\ rank = <<>>
    /\ iteration = 0
    /\ delta = Inf
    /\ deltas = <<>>
    /\ pr_pc = "start"
    /\ records = <<>>
    /\ returned = <<>>

InitCycle == CycleInit /\ IndexIdle /\ SearchIdle /\ NormIdle /\ RestIdle

SpecCycle == InitCycle /\ [][RankNext]_vars

\* A graph construction alone.
InitGraph == GraphInit /\ IndexIdle /\ SearchIdle /\ NormIdle /\ RestIdle

SpecGraph == InitGraph /\ [][GraphNext]_vars

\* Reading one input file.
InitLoad ==
    LoadInit /\ RankIdle /\ IndexIdle /\ SearchIdle /\ NormIdle /\ EvalIdle /\ CrawlIdle

SpecLoad == InitLoad /\ [][LoadNext]_vars

\* A min-max normalization alone.
InitNormalize == NormInit /\ RankIdle /\ IndexIdle /\ SearchIdle /\ RestIdle

SpecNormalize == InitNormalize /\ [][NormNext]_vars

\* Several searches, one after the other, in one process.
InitSession == SessionInit /\ RankIdle /\ NormIdle /\ RestIdle

SpecSession == InitSession /\ [][SessionNext]_vars

\* The fusion and ranking step of a search alone.
InitFusion == FusionInit /\ RankIdle /\ NormIdle /\ RestIdle

SpecFusion == InitFusion /\ [][FusionNext]_vars

\* ------------------------------------------------------------ rank claims
IsDangling(doc) == Targets(adjacency, doc) = {}

AllTargetsListed ==
    \A doc \in DOMAIN adjacency : adjacency[doc] \subseteq Range(doc_ids)

\* C1: on a graph whose link targets are all listed ids, the rank vector
\* produced by every iteration sums to exactly 1, dangling documents included.
C1_MassConserved ==
    (iteration >= 1 /\ AllTargetsListed) => RSum(rank, DOMAIN rank) = One

\* Two iterations done on a graph with a dangling and a linking document.
C1_Witness ==
    /\ iteration = 2
    /\ AllTargetsListed
    /\ \E doc \in Range(doc_ids) : IsDangling(doc)
    /\ \E doc \in Range(doc_ids) : ~IsDangling(doc)
    /\ \E a, b \in DOMAIN rank : rank[a] # rank[b]

\* C2: power_iteration starts from 1/N, runs at most max_iter iterations and
\* stops exactly at the first iteration whose L1 delta is strictly below tol,
\* or when max_iter iterations have run: it never stops while delta >= tol and
\* iterations remain, and never iterates again after a delta < tol.
C2_StopsAtFirstDeltaBelowTol ==
    /\ (pr_pc = "loop" /\ iteration = 0) =>
           \A doc \in Range(doc_ids) : rank[doc] = <<1, Len(doc_ids)>>
    /\ iteration <= max_iter
    /\ \A i \in 1..(Len(deltas) - 1) : ~RLess(deltas[i], tol)
    /\ (pr_pc = "done" /\ Len(doc_ids) > 0) =>
           \/ iteration = max_iter
           \/ iteration >= 1 /\ RLess(deltas[iteration], tol)

\* The run ended with the iteration budget used up and the last delta not
\* below the tolerance.
BudgetExhausted ==
    /\ pr_pc = "done"
    /\ Len(doc_ids) > 0
    /\ iteration = max_iter
    /\ ~RLess(delta, tol)

\* C16: when the iteration budget is exhausted before convergence, the rank
\* computation returns the last computed rank vector together with the number
\* of iterations performed, which equals max_iter, and the final L1 delta.
C16_BudgetExhaustedReturnsTriple ==
    BudgetExhausted => returned = <<rank, max_iter, delta>>

\* ------------------------------------------------------------ input claims
\* The ids of the records before position n that parse, in input order.
RECURSIVE ParsedBefore(_)
ParsedBefore(n) ==
    IF n <= 1 THEN <<>>
    ELSE ParsedBefore(n - 1) \o
         (IF ld_lines[n - 1].kind = "bad" THEN <<>> ELSE <<ld_lines[n - 1].id>>)

\* C21: an unparseable record of the input is skipped and reading continues
\* with the remaining records: no reader is aborted by a bad record, and the
\* finished read holds every record that parses.
C21_BadRecordSkipped ==
    /\ ld_pc # "raised"
    /\ ld_pc = "done" => ld_out = ParsedBefore(Len(ld_lines) + 1)

\* --------------------------------------------------------- session claims
\* The list search returns for the current arguments when it is the only call
\* of its process, over the artifacts as the index build wrote them.
ResultAlone ==
    LET built == BuiltIndex(engine, corpus)
        qv == IF engine = "cacm" THEN CacmEvaluate(query, built.postings)
              ELSE WebEvaluate(query, built.dictionary, built.postings)
    IN  IF engine = "web" /\ (query = <<>> \/ qv.terms = <<>> \/ qv.norm = 0)
        THEN <<>>
        ELSE RankedList(engine, CosineScores(engine, qv, top_k, built.doc_norms),
                        pagerank_file, w_cos, w_pr, normalize_pr, top_k)

C18_GraphWellFormed ==
    pr_pc = "parsed" =>
        /\ \A i \in 1..Len(records) : records[i].id \in DOMAIN adjacency
        /\ \A i \in 1..Len(doc_ids) : doc_ids[i] \in DOMAIN adjacency
        /\ \A doc \in DOMAIN adjacency : doc \notin adjacency[doc]

\* ---------------------------------------------------- normalization claims
\* 0, 1 and <= in the numbers of the implementation applied.
NzZero == IF RankSide(nz_impl) THEN Zero ELSE 0
NzOne == IF RankSide(nz_impl) THEN One ELSE Scale
NzLeq(x, y) == IF RankSide(nz_impl) THEN ~RLess(y, x) ELSE x <= y

\* C15: min-max normalization of a non-empty rank vector, by each of the four
\* implementations, yields a value in [0,1] for every document, with some
\* document at 0 and some at 1, except when all raw scores are equal: then
\* every document maps to 1.
C15_MinMaxNormalized ==
    nz_pc = "done" =>
        /\ DOMAIN normalized = DOMAIN raw_scores
        /\ IF \A a, b \in DOMAIN raw_scores : raw_scores[a] = raw_scores[b]
           THEN \A d \in DOMAIN normalized : normalized[d] = NzOne
           ELSE /\ \A d \in DOMAIN normalized :
                      NzLeq(NzZero, normalized[d]) /\ NzLeq(normalized[d], NzOne)
                /\ \E d \in DOMAIN normalized : normalized[d] = NzZero
                /\ \E d \in DOMAIN normalized : normalized[d] = NzOne

\* A normalized vector with a value strictly between the two bounds.
C15_Witness ==
    /\ nz_pc = "done"
    /\ \E d \in DOMAIN normalized :
          normalized[d] # NzZero /\ normalized[d] # NzOne

\* ----------------------------------------------------------- index claims
\* The raw frequency of term t in document did of the corpus.
RawFreq(did, t) ==
    LET i == CHOOSE k \in 1..Len(corpus) : corpus[k].id = did IN corpus[i].tf[t]

\* p stands before q rightly: heavier, or as heavy and more frequent, or as
\* heavy and frequent and of lower id.
RightOrder(t, p, q) ==
    \/ p.weight > q.weight
    \/ /\ p.weight = q.weight
       /\ \/ RawFreq(p.doc_id, t) > RawFreq(q.doc_id, t)
          \/ /\ RawFreq(p.doc_id, t) = RawFreq(q.doc_id, t)
             /\ p.doc_id < q.doc_id

\* C7: every term's emitted postings are sorted by weight descending, equal
\* weights by higher raw frequency first and then by lower document id first.
C7_PostingsOrdered ==
    ix_pc = "emitted" =>
        \A t \in DOMAIN postings :
            \A i, j \in 1..Len(postings[t]) :
                i < j => RightOrder(t, postings[t][i], postings[t][j])

\* ---------------------------------------------------------- query claims
QueryTermSet == {query[i] : i \in 1..Len(query)}

\* The weight of a query term: tf_weight times idf, idf 0 for an unseen term.
QueryWeight(t) ==
    FMul(TfWeight(Count(query, t)),
         IF t \in DOMAIN term_stats THEN term_stats[t][1].idf ELSE 0)

\* The terms of the query in whose first k postings the document appears.
WindowTerms(did, k) ==
    {t \in QueryTermSet \cap DOMAIN postings :
        \E i \in 1..Min(k, Len(postings[t])) : postings[t][i].doc_id = did}

\* The documents that some query term's first k postings hold.
Surfaced(k) == {did \in TouchedDocs(term_stats) : WindowTerms(did, k) # {}}

StatOf(t, did) == CHOOSE p \in Range(term_stats[t]) : p.doc_id = did

RECURSIVE SumOver(_, _)
SumOver(f, S) ==
    IF S = {} THEN 0
    ELSE LET x == CHOOSE y \in S : TRUE IN f[x] + SumOver(f, S \ {x})

\* The sum of norm_weight(doc, term) * weight(term) / query norm over the terms
\* of WindowTerms(did, k). The web index stores weight and document norm apart,
\* so there the same sum is numerator / (document norm * query norm).
PrunedCosine(did, k) ==
    IF engine = "cacm"
    THEN SumOver([t \in WindowTerms(did, k) |->
                     FMul(NormWeight(StatOf(t, did).weight, NormOf(norm_sums, did)),
                          FDiv(QueryWeight(t), query_vector.norm))],
                 WindowTerms(did, k))
    ELSE FDiv(SumOver([t \in WindowTerms(did, k) |->
                          FMul(QueryWeight(t), StatOf(t, did).weight)],
                      WindowTerms(did, k)),
              FMul(NormOf(norm_sums, did), query_vector.norm))

DocsOf(s) == {s[i].doc_id : i \in 1..Len(s)}

CosOf(did) == (CHOOSE e \in Range(sim) : e.doc_id = did).score

\* C3: a document's cosine score is the sum, over exactly the query terms in
\* whose first K postings it appears, of norm_weight(doc, term) times the
\* query term's weight over the query norm; a term adds nothing to a document
\* below position K of its postings list.
C3_CosineOverTopKWindows ==
    (s_pc = "compared" /\ query_vector.norm # 0) =>
        /\ DocsOf(sim) = Surfaced(top_k)
        /\ \A i \in 1..Len(sim) : sim[i].score = PrunedCosine(sim[i].doc_id, top_k)

\* C5: search returns an empty list, and does not raise, whenever the query has
\* no token, the query norm is 0, or no query term has a posting.
C5_EmptyResultOnDegenerateQuery ==
    /\ s_pc # "raised"
    /\ s_pc = "done" =>
          ((query = <<>> \/ query_vector.norm = 0
            \/ QueryTermSet \cap DOMAIN postings = {}) => result = <<>>)

\* C6: the query norm is the square root of the sum, once per distinct query
\* term, of (tf_weight * idf)^2; a repeated term counts once.
C6_QueryNormOverDistinctTerms ==
    s_pc \in {"evaluated", "compared"} =>
        query_vector.norm =
            FSqrt(SumOver([t \in QueryTermSet |-> FMul(QueryWeight(t), QueryWeight(t))],
                          QueryTermSet))

\* C8: raising the per-term cap from K to K' > K never lowers the cosine score
\* of a document scored at K, and the documents returned at K are among those
\* returned at K'.
C8_PruningMonotone ==
    s_pc = "done" =>
        \A k2 \in (top_k + 1)..(MaxK + 1) :
            LET sim2 == CosineScores(engine, query_vector, k2, doc_norms)
                res2 == RankedList(engine, sim2, pagerank_file, w_cos, w_pr,
                                   normalize_pr, k2)
            IN  /\ \A i \in 1..Len(sim) : \E j \in 1..Len(sim2) :
                       /\ sim2[j].doc_id = sim[i].doc_id
                       /\ sim2[j].score >= sim[i].score
                /\ DocsOf(result) \subseteq DocsOf(res2)

\* A finished search where a larger cap both raises a score and adds a document.
C8_Witness ==
    /\ s_pc = "done"
    /\ result # <<>>
    /\ \E k2 \in (top_k + 1)..(MaxK + 1) :
          LET sim2 == CosineScores(engine, query_vector, k2, doc_norms)
          IN  /\ Len(sim2) > Len(sim)
              /\ \E i \in 1..Len(sim), j \in 1..Len(sim2) :
                    sim2[j].doc_id = sim[i].doc_id /\ sim2[j].score > sim[i].score

\* C9: the engine returns every document that some query term's top-K window
\* surfaces, and does not cut the ranked list.
C9_ReturnsEveryCandidate ==
    s_pc = "done" =>
        /\ Surfaced(top_k) \subseteq DocsOf(result)
        /\ Len(result) = Len(sim)

\* ---------------------------------------------------------- fusion claims
\* The rank scores as they enter the fusion.
FedRank(did) ==
    Get(IF normalize_pr THEN NormalizeScores(pagerank_file.scores)
        ELSE pagerank_file.scores, did, 0)

C10_WeightsRenormalised ==
    (/\ s_pc = "done"
     /\ w_cos + w_pr # 0
     /\ w_cos + w_pr # Scale
     /\ pagerank_file.supplied
     /\ DOMAIN pagerank_file.scores # {}) =>
        \A e \in Range(result) :
            e.score = FMul(FDiv(w_cos, w_cos + w_pr), CosOf(e.doc_id))
                      + FMul(FDiv(w_pr, w_cos + w_pr), FedRank(e.doc_id))

\* ---------------------------------------------------------- later query claims
\* A rank weight without a rank vector, or both weights 0 with one.
ConfigError ==
    \/ w_pr > 0 /\ ~pagerank_file.supplied
    \/ w_cos = 0 /\ w_pr = 0 /\ pagerank_file.supplied

\* C11: a search with w_pr > 0 and no rank vector, or with both weights 0 while
\* a rank vector is supplied, fails before any scoring: it never gets past its
\* entry, and returns no list.
C11_ConfigErrorsFailFast ==
    ConfigError => s_pc \in {"cli", "start", "rejected"}

\* C12: the returned list is in non-increasing order of final score, and
\* candidates of equal final score are in document-id order.
C12_ResultOrdered ==
    s_pc = "done" =>
        \A i, j \in 1..Len(result) :
            i < j => \/ result[i].score > result[j].score
                     \/ /\ result[i].score = result[j].score
                        /\ result[i].doc_id < result[j].doc_id

\* C14: the cosine score of every candidate lies in [0, 1].
C14_CosineInUnitInterval ==
    s_pc \in {"compared", "done"} =>
        \A i \in 1..Len(sim) : 0 <= sim[i].score /\ sim[i].score <= Scale

\* The document has a posting of positive weight.
HasWeight(did) ==
    \E t \in DOMAIN term_stats : \E p \in Range(term_stats[t]) :
        p.doc_id = did /\ p.weight > 0

\* No norm_weight and no cosine score comes from a division by a zero norm:
\* a zero norm gives norm_weight 0, and the web norms table, from which the
\* cosine denominators are taken, holds no zero.
NoDivisionByZeroNorm ==
    /\ engine = "cacm" =>
          \A t \in DOMAIN postings : \A p \in Range(postings[t]) :
              NormOf(norm_sums, p.doc_id) = 0 => p.nw = 0
    /\ engine = "web" => \A did \in DOMAIN doc_norms : doc_norms[did] > 0

\* The terms with a posting for the document.
TermsOf(did) ==
    {t \in DOMAIN term_stats : \E p \in Range(term_stats[t]) : p.doc_id = did}

\* The document's norm over all of its terms: the root of the sum of its
\* squared weights, 0 when the sum is 0.
FinalNorm(did) ==
    LET total == SumOver([t \in TermsOf(did) |->
                             FMul(StatOf(t, did).weight, StatOf(t, did).weight)],
                         TermsOf(did))
    IN  IF total > 0 THEN FSqrt(total) ELSE 0

\* C20: every norm_weight, and every document norm the cosine is divided by,
\* is computed from the document's final norm: nothing of the kind is computed
\* or written before the squared weights of all terms are accumulated.
C20_NormWeightFromFinalNorm ==
    /\ ix_pc \in {"start", "indexed", "weighted"} =>
          /\ engine = "cacm" => postings = <<>>
          /\ doc_norms = <<>>
    /\ (ix_pc = "emitted" /\ engine = "cacm") =>
          \A t \in DOMAIN postings : \A p \in Range(postings[t]) :
              p.nw = NormWeight(p.weight, FinalNorm(p.doc_id))
    /\ (ix_pc = "emitted" /\ engine = "web") =>
          \A did \in DOMAIN doc_norms : doc_norms[did] = FinalNorm(did)

\* A finished invert.py build with a document that has two terms of positive
\* weight, and so a norm_weight below 1 in each of its postings.
C20_Witness ==
    /\ ix_pc = "emitted"
    /\ engine = "cacm"
    /\ \E did \in TouchedDocs(term_stats) :
          /\ \A t \in Terms : t \in TermsOf(did) /\ StatOf(t, did).weight > 0
          /\ \A t \in DOMAIN postings : \A p \in Range(postings[t]) :
                 p.doc_id = did => (0 < p.nw /\ p.nw < Scale)

\* C13 as stated: after an index build every document with a posting has a
\* strictly positive norm, and nothing is divided by a zero norm.
C13_NormPositiveIfIndexed ==
    ix_pc = "emitted" =>
        /\ \A did \in TouchedDocs(term_stats) : NormOf(norm_sums, did) > 0
        /\ NoDivisionByZeroNorm

\* C13, amended: every document with a posting of positive weight has a
\* strictly positive norm, and nothing is divided by a zero norm.
C13_NormPositiveIfWeighted ==
    ix_pc = "emitted" =>
        /\ \A did \in TouchedDocs(term_stats) :
               HasWeight(did) => NormOf(norm_sums, did) > 0
        /\ NoDivisionByZeroNorm

\* A finished build with a document of norm 0 beside a document that has two
\* postings, one of them of positive weight.
C13_Witness ==
    /\ ix_pc = "emitted"
    /\ \E did \in TouchedDocs(term_stats) : NormOf(norm_sums, did) = 0
    /\ \E did \in TouchedDocs(term_stats) :
          /\ HasWeight(did)
          /\ \A t \in Terms : t \in DOMAIN term_stats
                              /\ \E p \in Range(term_stats[t]) : p.doc_id = did

\* ---------------------------------------------------------------- C22
\* C22: for the corpus doc 1 "cats and dogs", doc 2 "dogs and birds", doc 3
\* "cats and cats" and the query "cats", the index build followed by the search
\* ends with a result list, under the plain idf (cacm) and the smoothed idf
\* (web) alike: doc 3 is first, doc 1 is returned whenever the list has room
\* for a second entry and then has a strictly smaller score than doc 3, and
\* doc 2 is not returned.
PositionsOf(did) == {i \in 1..Len(result) : result[i].doc_id = did}

C22_CatsScenario ==
    query = <<"cats">> =>
        /\ s_pc # "raised"
        /\ s_pc = "done" =>
              /\ PositionsOf(3) = {1}
              /\ PositionsOf(2) = {}
              /\ \A i \in PositionsOf(1) : i > 1 /\ result[i].score < result[1].score
              /\ top_k >= 2 => PositionsOf(1) # {}

\* The build and the search of the scenario have run on the input order 2, 1, 3
\* and two documents are returned.
C22_Witness ==
    /\ query = <<"cats">>
    /\ s_pc = "done"
    /\ ix_pc = "emitted"
    /\ Len(corpus) = 3 /\ corpus[1].id = 2 /\ corpus[2].id = 1
    /\ "cats" \in DOMAIN index
    /\ Len(result) = 2

\* ---------------------------------------------------------------- C23
\* C23: on the cycle 1 -> 2 -> 3 -> 1 with damping 0.85 every node's rank is
\* 1/3 before and after every iteration, and for an iteration budget of at
\* least 1 the returned ranks of the three nodes are equal and sum to 1.
C23_CycleStaysUniform ==
    damping = <<17, 20>> =>
        /\ pr_pc \in {"loop", "done"} =>
              DOMAIN rank = {1, 2, 3} /\ \A doc \in {1, 2, 3} : rank[doc] = <<1, 3>>
        /\ (pr_pc = "done" /\ max_iter >= 1) =>
              /\ iteration >= 1
              /\ returned[1][1] = returned[1][2] /\ returned[1][2] = returned[1][3]
              /\ RSum(returned[1], DOMAIN returned[1]) = One

\* power_iteration has returned from the cycle after three iterations.
C23_Witness ==
    /\ damping = <<17, 20>>
    /\ adjacency = CycleGraph
    /\ pr_pc = "done"
    /\ iteration = 3
    /\ returned[1] = rank

\* ---------------------------------------------------------------- C24
\* The ranks whose document is in the relevant set.
RelevantRanks ==
    {i \in 1..Len(ev_results) :
        ev_results[i].numeric /\ ev_results[i].doc_id \in Range(ev_relevant)}

\* hits_so_far / i at a relevant rank i.
PrecisionAtRank ==
    [i \in RelevantRanks |-> Rat(Cardinality({j \in RelevantRanks : j <= i}), i)]

\* C24: average_precision returns (1/|R|) times the sum, over the ranks i
\* (from 1) whose document is in the relevant set R, of hits_so_far / i, and 0
\* when R is empty; for R = {2, 5} and the ranking 5, 9, 2, 7 it returns 5/6.
C24_AveragePrecision ==
    ev_pc = "done" =>
        /\ Range(ev_relevant) = {} => ev_ap = Zero
        /\ Range(ev_relevant) # {} =>
              ev_ap = RDivInt(RSum(PrecisionAtRank, RelevantRanks),
                              Cardinality(Range(ev_relevant)))
        /\ (Range(ev_relevant) = {2, 5}
              /\ [i \in 1..Len(ev_results) |-> ev_results[i].doc_id] = <<5, 9, 2, 7>>
              /\ \A i \in 1..Len(ev_results) : ev_results[i].numeric)
             => ev_ap = <<5, 6>>

\* average_precision has returned for the relevant documents 2, 5 and the
\* ranking 5, 9, 2, 7.
C24_Witness ==
    /\ ev_pc = "done"
    /\ ev_relevant = <<2, 5>>
    /\ [i \in 1..Len(ev_results) |-> ev_results[i].doc_id] = <<5, 9, 2, 7>>
    /\ \A i \in 1..Len(ev_results) : ev_results[i].numeric
    /\ ev_hits = 2

\* ---------------------------------------------------------------- C25
\* C25: when an adjacency set holds a target that is not in doc_ids, the rank
\* vector pagerank.py's power_iteration builds in every iteration, the entry
\* created for the outside target included, sums to 1.
C25_MassKeptWithOutsideTarget ==
    (pr_impl = "cacm" /\ iteration >= 1 /\ ~AllTargetsListed) =>
        RSum(rank, DOMAIN rank) = One

\* ---------------------------------------------------------------- C29
\* The other of the two power_iteration functions, on the arguments of this run.
OtherRun ==
    PowerIteration(IF pr_impl = "cacm" THEN "web" ELSE "cacm",
                   doc_ids, adjacency, damping, max_iter, tol)

\* C29: for the same doc_ids, adjacency (all targets within doc_ids), damping,
\* max_iter and tol, pagerank.py's and task2/web_pagerank.py's power_iteration
\* perform the same number of iterations and return the same rank vector.
C29_SamePowerIteration ==
    (pr_pc = "done" /\ AllTargetsListed) =>
        /\ OtherRun.iterations = iteration
        /\ OtherRun.rank = rank

\* ---------------------------------------------------------- crawl claims
Max(a, b) == IF a > b THEN a ELSE b

\* ---------------------------------------------------------------- C26
\* C26: during one crawl no normalized URL is fetched more than once, whether
\* the fetch failed, or the page was skipped by its title, or it was recorded.
C26_FetchedOnce ==
    \A i, j \in 1..Len(fetched) : i # j => fetched[i].url # fetched[j].url

\* The crawl is over; the URL a was queued twice (as a#f and as a), its page
\* was skipped by title at the first pass, and it was requested once.
C26_Witness ==
    /\ cr_pc = "done"
    /\ cr_seeds = <<"a#f", "a">>
    /\ cr_web["a"].kind = "skip"
    /\ frontier = <<>>
    /\ Len(fetched) = 1 /\ fetched[1].url = "a"

\* ---------------------------------------------------------------- C27
\* The records written carry the ids 1, 2, ... in write order, as many as
\* doc_id_counter counts.
IdsInWriteOrder ==
    /\ Len(written) = doc_id_counter
    /\ \A i \in 1..Len(written) : written[i].doc_id = i

\* Each URL holds at most one id: no URL is written twice and url_to_id maps
\* the written URLs to the ids of their records.
OneIdPerUrl ==
    /\ \A i, j \in 1..Len(written) : i # j => written[i].url # written[j].url
    /\ DOMAIN url_to_id = {written[i].url : i \in 1..Len(written)}
    /\ \A i \in 1..Len(written) : url_to_id[written[i].url] = written[i].doc_id

\* A step changes neither the id of a URL nor a record already written.
IdsKept ==
    /\ \A u \in DOMAIN url_to_id : u \in DOMAIN url_to_id' /\ url_to_id'[u] = url_to_id[u]
    /\ Len(written') >= Len(written)
    /\ SubSeq(written', 1, Len(written)) = written

\* C27 as stated: at every point of a crawl the records written so far carry
\* the distinct ids 1..doc_id_counter in write order, each URL holds at most
\* one id, which never changes, and doc_id_counter never exceeds max_pages.
C27_IdsWithinMaxPages ==
    /\ [](IdsInWriteOrder /\ OneIdPerUrl /\ doc_id_counter <= cr_max_pages)
    /\ [][IdsKept]_vars

\* C27 amended: the same, with doc_id_counter never above max_pages or, for a
\* negative max_pages, never above 0.
C27_IdsWithinBudget ==
    /\ [](IdsInWriteOrder /\ OneIdPerUrl /\ doc_id_counter <= Max(cr_max_pages, 0))
    /\ [][IdsKept]_vars

\* The budget of two pages is used up with entries left in the frontier.
C27_Witness ==
    /\ cr_pc = "done"
    /\ cr_max_pages = 2
    /\ doc_id_counter = 2
    /\ Len(written) = 2
    /\ frontier # <<>>

\* ---------------------------------------------------------------- C28
\* No page fetched or recorded, and no frontier entry, lies deeper than d.
DepthsWithin(d) ==
    /\ \A i \in 1..Len(fetched) : fetched[i].depth <= d
    /\ \A i \in 1..Len(written) : written[i].depth <= d
    /\ \A i \in 1..Len(frontier) : frontier[i].depth <= d

\* A pass over an entry at depth max_depth or deeper appends nothing.
NoLinksFromMaxDepth ==
    (frontier # <<>> /\ frontier[1].depth >= cr_max_depth) =>
        \/ frontier' = Tail(frontier)
        \/ frontier' = frontier

\* C28 as stated: the crawler never fetches or records a page whose depth
\* exceeds max_depth; every frontier entry has depth <= max_depth, and the
\* links found on a page at depth max_depth are not enqueued.
C28_DepthWithinMaxDepth ==
    /\ [](DepthsWithin(cr_max_depth))
    /\ [][NoLinksFromMaxDepth]_vars

\* C28 amended: the same for every depth below the seeds; the seeds, at depth
\* 0, are queued and fetched whatever max_depth is.
C28_DepthWithinLimit ==
    /\ [](DepthsWithin(Max(cr_max_depth, 0)))
    /\ [][NoLinksFromMaxDepth]_vars

\* The page b was recorded at depth 1 = max_depth; it links to c, which is
\* inside the domain and was never queued or visited.
C28_Witness ==
    /\ cr_pc = "done"
    /\ cr_max_depth = 1
    /\ \E i \in 1..Len(written) : written[i].url = "b" /\ written[i].depth = 1
    /\ "c" \in Range(cr_web["b"].links)
    /\ cr_web["c"].kind = "ok"
    /\ "c" \notin visited \cup discovered

\* ---------------------------------------------------------------- C30
\* The entries a pass of the loop appends to the frontier, after popleft has
\* taken the first one.
Appended ==
    IF cr_pc' = "crawling" /\ frontier # <<>>
    THEN SubSeq(frontier', Len(frontier), Len(frontier'))
    ELSE <<>>

\* C30: the frontier never holds the same URL twice: a URL that is still
\* queued, a configured seed included, or already visited is never appended
\* to the frontier again.
C30_NeverQueuedTwice ==
    [][\A k \in 1..Len(Appended) :
          /\ Appended[k].url \notin visited'
          /\ \A i \in 2..Len(frontier) : frontier[i].url # Appended[k].url
          /\ \A j \in 1..(k - 1) : Appended[j].url # Appended[k].url]_vars
====
